---- MODULE Spec2Model ----
(***************************************************************************)
(* Purchase-order automation pipeline: four LangGraph nodes               *)
(* (demand_analyst, supplier_selector, container_optimizer, po_compiler)  *)
(* joined by three routers, threaded over one PipelineState record per    *)
(* run.  External collaborators (MCP tool providers, the OpenRouter       *)
(* rationale generator, the log_decision sink) are the environment: each  *)
(* call's outcome is chosen nondeterministically.                         *)
(***************************************************************************)
EXTENDS Integers, Sequences, FiniteSets, TLC

VARIABLES
    pc,         \* per run: where the compiled graph stands
    state,      \* per run: the PipelineState held by the graph
    ret,        \* per run: outcome of the node that ran last (returned record or raise)
    executed,   \* per run: the nodes executed so far, in order
    result,     \* per run: what run_pipeline handed back to its caller
    calls,      \* every external call made so far, in order
    audit_log,  \* the decision-log store behind log_decision
    po_store,   \* the draft purchase orders behind create_draft_po
    mcp         \* the MCP client: invocations made, processes started, the last invocation

vars == <<pc, state, ret, executed, result, calls, audit_log, po_store, mcp>>

----------------------------------------------------------------------------
(* Bounds of the model *)

\* how many SKUs exist in the operational store
MaxItems == 2

\* how many lines a provider process writes to its standard output
MaxLines == 2

SkuNames == <<"A", "B", "C", "D">>
Skus == {SkuNames[i] : i \in 1..MaxItems}

\* the runs a process may serve; Spec starts the first only
Runs == {"r1", "r2"}
UUIDs == {"uuid-1", "uuid-2"}

----------------------------------------------------------------------------
(* Python values *)

\* Python's None
Null == "None"

\* a dict with no keys
EmptyDict == [k \in {} |-> Null]

\* truth value of an Optional[str]
Truthy(v) == v # Null /\ v # ""

\* d.get(k, default)
Get(d, k, default) == IF k \in DOMAIN d THEN d[k] ELSE default

\* {**d, **u}
Merge(d, u) == [k \in (DOMAIN d) \cup (DOMAIN u) |-> IF k \in DOMAIN u THEN u[k] ELSE d[k]]

\* xs[:n]
Take(xs, n) == SubSeq(xs, 1, IF Len(xs) < n THEN Len(xs) ELSE n)

\* [F(x) for x in xs]
Map(xs, F(_)) == [i \in 1..Len(xs) |-> F(xs[i])]

\* max(0, n)
Max0(n) == IF n < 0 THEN 0 ELSE n

\* the sequences of distinct SKUs, in the order of SkuNames
RECURSIVE OrderedSubseqs(_)
OrderedSubseqs(i) ==
    IF i > MaxItems THEN {<<>>}
    ELSE LET rest == OrderedSubseqs(i + 1)
         IN rest \cup {<<SkuNames[i]>> \o r : r \in rest}

----------------------------------------------------------------------------
(* The environment: outcomes of the external calls *)

\* call_mcp_tool returned the decoded payload
Ok(data) == [ok |-> TRUE, data |-> data]

\* call_mcp_tool raised
Fail(exc) == [ok |-> FALSE, exc |-> exc]

\* one external call, as the trace keeps it: of the arguments, args holds only
\* the identifying ones (run_id, agent_name, created_by); exc is the text of the
\* exception the call raised
Call(server, tool, out, args) ==
    [server |-> server, tool |-> tool, ok |-> out.ok, args |-> args,
     exc |-> IF out.ok THEN Null ELSE Get(out, "exc", Null)]

\* MCP_SERVERS[server_key], relative to the project root
MCP_SERVERS(server_key) ==
    CASE server_key = "erp" -> "mcp-servers/erp-data-server"
      [] server_key = "supplier" -> "mcp-servers/supplier-data-server"
      [] server_key = "logistics" -> "mcp-servers/logistics-server"
      [] server_key = "po" -> "mcp-servers/po-management-server"

\* the text of the FileNotFoundError call_mcp_tool raises for a missing dist/index.js
NotBuilt(server_key) ==
    "MCP server not built: " \o MCP_SERVERS(server_key) \o "/dist/index.js. Run 'npm run build' in "
        \o MCP_SERVERS(server_key)

\* a call whose arguments carry no identifying field
NoIds == EmptyDict

\* an inventory row of a SKU that is short of stock (MOQ above the raw need)
LowRow(sku) ==
    [sku |-> sku, current_stock |-> 0, in_transit |-> 0, safety_stock |-> 2,
     products |-> [moq |-> 10]]

\* an inventory row of a well-stocked SKU (no product data joined)
HighRow(sku) ==
    [sku |-> sku, current_stock |-> 20, in_transit |-> 5, safety_stock |-> 2]

InventoryLists ==
    UNION {{[i \in 1..Len(ss) |-> IF ss[i] \in low THEN LowRow(ss[i]) ELSE HighRow(ss[i])]
              : low \in SUBSET {ss[i] : i \in 1..Len(ss)}}
             : ss \in OrderedSubseqs(1)}

InventoryOutcomes ==
    {Fail(NotBuilt("erp"))} \cup {Ok(EmptyDict)}
        \cup {Ok([inventory |-> rows]) : rows \in InventoryLists}

ForecastLevels == {30}

ForecastOutcomes ==
    {Fail("No valid response from MCP server 'erp' for tool 'get_forecasts'")}
        \cup {Ok(EmptyDict)}
        \cup {Ok([summary_by_sku |->
                    [i \in 1..MaxItems |-> [sku |-> SkuNames[i], total_forecast |-> f]]])
                : f \in ForecastLevels}

\* response texts: one that is no JSON, one that json.loads turns into a dict
LLMContents == {"not json", "{rationale, confidence}"}

\* what get_llm / llm.invoke did: RuntimeError, another exception, or a response
LLMOutcomes ==
    {[kind |-> "unreachable", exc |-> "OPENROUTER_API_KEY is not configured."],
     [kind |-> "request_failed", exc |-> "Connection error."]}
        \cup {[kind |-> "response", content |-> c] : c \in LLMContents}

LogOutcomes ==
    {Ok([logged |-> TRUE]), Fail(NotBuilt("po"))}

\* one request to the rationale generator, as the trace keeps it: with the text
\* of the response when there was one
LLMCall(llm) ==
    Call("openrouter", "invoke",
         IF llm.kind = "response" THEN [ok |-> TRUE] ELSE Fail(llm.exc),
         IF llm.kind = "response" THEN [content |-> llm.content] ELSE NoIds)

\* json.loads(response.content.strip()...)
JsonLoads(content) ==
    CASE content = "{rationale, confidence}" ->
            [ok |-> TRUE, value |-> [rationale |-> "LLM rationale", confidence |-> 90]]
      [] content = "{logged}" ->
            [ok |-> TRUE, value |-> [logged |-> TRUE]]
      [] content = "{}" ->
            [ok |-> TRUE, value |-> EmptyDict]
      [] OTHER ->
            [ok |-> FALSE, exc |-> "Expecting value: line 1 column 1 (char 0)"]

\* the try block: parsed.get('rationale', dr) and float(parsed.get('confidence', dc))
ParseRationale(content, dr, dc) ==
    LET parsed == JsonLoads(content)
    IN IF parsed.ok
       THEN [ok |-> TRUE, rationale |-> Get(parsed.value, "rationale", dr),
             confidence |-> Get(parsed.value, "confidence", dc)]
       ELSE parsed

----------------------------------------------------------------------------
(* The MCP client: call_mcp_tool over a one-shot provider process *)

\* faulty variant: the operation request is sent before the handshake
messages_call_first(tool_name, arguments) ==
    <<[jsonrpc |-> "2.0", id |-> 1, method |-> "tools/call",
       params |-> [name |-> tool_name, arguments |-> arguments]],
      [jsonrpc |-> "2.0", id |-> 2, method |-> "initialize",
       params |-> [protocolVersion |-> "2025-03-26", capabilities |-> EmptyDict,
                   clientInfo |-> [name |-> "python-mcp-client", version |-> "1.0.0"]]],
      [jsonrpc |-> "2.0", method |-> "notifications/initialized"]>>

\* the three JSON-RPC messages written to the process's standard input
messages(tool_name, arguments) ==
    <<[jsonrpc |-> "2.0", id |-> 1, method |-> "initialize",
       params |-> [protocolVersion |-> "2025-03-26", capabilities |-> EmptyDict,
                   clientInfo |-> [name |-> "python-mcp-client", version |-> "1.0.0"]]],
      [jsonrpc |-> "2.0", method |-> "notifications/initialized"],
      [jsonrpc |-> "2.0", id |-> 2, method |-> "tools/call",
       params |-> [name |-> tool_name, arguments |-> arguments]]>>

\* a line of standard output, by what json.loads makes of it: no JSON at all, a
\* JSON value that is no object (a number, a string, null, a list), or an object
Garbage == [shape |-> "text"]
Scalar == [shape |-> "scalar"]
Obj(msg) == [shape |-> "object", msg |-> msg]

TextBlock(t) == [type |-> "text", text |-> t]
ImageBlock == [type |-> "image", data |-> "iVBORw0KGgo="]

\* a tools/call response with the given content blocks
ToolResult(blocks) == [jsonrpc |-> "2.0", id |-> 2, result |-> [content |-> blocks]]

\* a tools/call response whose envelope reports that the operation failed
ToolError(blocks) ==
    [jsonrpc |-> "2.0", id |-> 2, result |-> [isError |-> TRUE, content |-> blocks]]

\* the messages a provider may write
ProviderMessages ==
    {[jsonrpc |-> "2.0", id |-> 1,
      result |-> [protocolVersion |-> "2025-03-26", serverInfo |-> "provider"]],
     [jsonrpc |-> "2.0", id |-> 3, result |-> [content |-> <<TextBlock("{}")>>]],
     [jsonrpc |-> "2.0", method |-> "notifications/message"],
     ToolResult(<<TextBlock("{logged}")>>),
     ToolResult(<<ImageBlock, TextBlock("{logged}")>>),
     ToolResult(<<TextBlock("not json")>>),
     ToolResult(<<>>),
     [jsonrpc |-> "2.0", id |-> 2, result |-> [isError |-> FALSE,
                                                 content |-> <<TextBlock("{}")>>]],
     [jsonrpc |-> "2.0", id |-> 2, error |-> "Method not found"],
     ToolError(<<TextBlock("insert rejected")>>),
     ToolError(<<ImageBlock, TextBlock("insert rejected")>>),
     ToolError(<<>>)}

OutputLines == {Garbage, Scalar} \cup {Obj(m) : m \in ProviderMessages}

\* what the process did: it ran past the time limit, or it exited
ProcOutcomes ==
    {[kind |-> "timeout"]}
        \cup {[kind |-> "exit", returncode |-> rc, stdout |-> out, stderr |-> "boom"]
                : rc \in {0, 1}, out \in UNION {[1..n -> OutputLines] : n \in 0..MaxLines}}

\* result.stdout.strip().split('\n'): an empty output is one empty line
stdout_lines(stdout) == IF stdout = <<>> THEN <<Garbage>> ELSE stdout

NoValidResponse(server_key, tool_name) ==
    "No valid response from MCP server '" \o server_key \o "' for tool '" \o tool_name \o "'"

\* the loop over stdout_lines from line i on, and the raise after the loop
RECURSIVE mcp_scan(_, _, _, _)
mcp_scan(lines, i, server_key, tool_name) ==
    IF i > Len(lines) THEN Fail(NoValidResponse(server_key, tool_name))
    ELSE IF lines[i].shape = "text"
      THEN mcp_scan(lines, i + 1, server_key, tool_name)
    ELSE IF lines[i].shape = "scalar"
      THEN Fail("'int' object has no attribute 'get'")
    ELSE LET msg == lines[i].msg
             result_obj == Get(msg, "result", EmptyDict)
             content == Get(result_obj, "content", <<>>)
         IN IF ~("id" \in DOMAIN msg /\ msg.id = 2)
              THEN mcp_scan(lines, i + 1, server_key, tool_name)
            ELSE IF "error" \in DOMAIN msg
              THEN Fail("MCP tool '" \o tool_name \o "' error: " \o msg.error)
            ELSE IF "isError" \in DOMAIN result_obj /\ result_obj.isError
              THEN IF Get(result_obj, "content", <<EmptyDict>>) = <<>>
                   THEN Fail("list index out of range")
                   ELSE Fail("MCP tool '" \o tool_name \o "' failed: "
                               \o Get(Get(result_obj, "content", <<EmptyDict>>)[1],
                                      "text", "Unknown tool error"))
            ELSE IF content # <<>> /\ Get(content[1], "type", Null) = "text"
              THEN IF JsonLoads(content[1].text).ok
                   THEN Ok(JsonLoads(content[1].text).value)
                   ELSE mcp_scan(lines, i + 1, server_key, tool_name)
            ELSE mcp_scan(lines, i + 1, server_key, tool_name)

\* one provider process, as started by subprocess.run
Process(server_key, tool_name, arguments) ==
    [cwd |-> MCP_SERVERS(server_key), stdin |-> messages(tool_name, arguments)]

\* faulty variant: reads the output of a process that exited with an error
call_mcp_tool_ignores_exit(server_key, tool_name, arguments, built, proc) ==
    IF ~built THEN [started |-> <<>>, outcome |-> Fail(NotBuilt(server_key))]
    ELSE [started |-> <<Process(server_key, tool_name, arguments)>>,
          outcome |-> IF proc.kind = "timeout" THEN Fail("timed out after 30 seconds")
                      ELSE mcp_scan(stdout_lines(proc.stdout), 1, server_key, tool_name)]

\* call_mcp_tool: the processes it starts and how it ends (Ok: the payload it
\* returns; Fail: the exception it raises)
call_mcp_tool(server_key, tool_name, arguments, built, proc) ==
    IF ~built THEN [started |-> <<>>, outcome |-> Fail(NotBuilt(server_key))]
    ELSE [started |-> <<Process(server_key, tool_name, arguments)>>,
          outcome |->
              IF proc.kind = "timeout"
                THEN Fail("Command '['node', '" \o MCP_SERVERS(server_key)
                            \o "/dist/index.js']' timed out after 30 seconds")
              ELSE IF proc.returncode # 0
                THEN Fail("MCP server '" \o server_key \o "' exited "
                            \o ToString(proc.returncode) \o ": " \o proc.stderr)
              ELSE mcp_scan(stdout_lines(proc.stdout), 1, server_key, tool_name)]

----------------------------------------------------------------------------
(* What a node hands back to the graph *)

\* the node returned `rec` after making `cs`, writing `logged` and creating `created`
Return(rec, cs, logged, created) ==
    [kind |-> "return", rec |-> rec, calls |-> cs, logged |-> logged, created |-> created]

\* the node let the exception `exc` escape
Raise(exc, cs, logged, created) ==
    [kind |-> "raise", exc |-> exc, calls |-> cs, logged |-> logged, created |-> created]

update_agent_activity(st, agent_name, status, summary, confidence, llm_used, llm_error, details) ==
    Merge(Get(st, "agent_activity", EmptyDict),
          agent_name :> [status |-> status, summary |-> summary, confidence |-> confidence,
                         llm_used |-> llm_used, llm_error |-> llm_error, details |-> details])

----------------------------------------------------------------------------
(* Agent 1: demand_analyst_node *)

DemandAnalyst == "DemandAnalyst"

demand_inventory_failed(st, run_id, skus_requested, horizon, exc) ==
    LET error_message == DemandAnalyst \o " could not load inventory data: " \o exc
    IN Merge(st, [run_id |-> run_id, current_agent |-> "demand_analyst",
                  error |-> error_message,
                  agent_activity |-> update_agent_activity(st, DemandAnalyst, "failed",
                      error_message, Null, FALSE, Null,
                      [requested_skus |-> skus_requested, horizon_months |-> horizon])])

\* faulty variant: an empty inventory is reported without setting error
demand_no_inventory_no_error(st, skus_requested, horizon) ==
    LET error_message == "No inventory records found - run seed_data.py first"
    IN Merge(st, [error |-> Null, current_agent |-> "demand_analyst",
                  agent_activity |-> update_agent_activity(st, DemandAnalyst, "failed",
                      error_message, Null, FALSE, Null,
                      [inventory_count |-> 0, requested_skus |-> skus_requested,
                       horizon_months |-> horizon])])

demand_no_inventory(st, skus_requested, horizon) ==
    LET error_message == "No inventory records found - run seed_data.py first"
    IN Merge(st, [error |-> error_message, current_agent |-> "demand_analyst",
                  agent_activity |-> update_agent_activity(st, DemandAnalyst, "failed",
                      error_message, Null, FALSE, Null,
                      [inventory_count |-> 0, requested_skus |-> skus_requested,
                       horizon_months |-> horizon])])

demand_forecast_failed(st, run_id, inventory, skus, horizon, exc) ==
    LET error_message == DemandAnalyst \o " could not load forecast data: " \o exc
    IN Merge(st, [run_id |-> run_id, inventory_snapshot |-> inventory,
                  skus_to_plan |-> skus, current_agent |-> "demand_analyst",
                  error |-> error_message,
                  agent_activity |-> update_agent_activity(st, DemandAnalyst, "failed",
                      error_message, Null, FALSE, Null,
                      [inventory_count |-> Len(inventory), horizon_months |-> horizon])])

\* {f['sku']: f['total_forecast'] for f in forecast_summary}
ForecastBySku(forecast_summary) ==
    [s \in {forecast_summary[i].sku : i \in 1..Len(forecast_summary)} |->
        LET last == CHOOSE i \in 1..Len(forecast_summary) :
                        /\ forecast_summary[i].sku = s
                        /\ \A j \in 1..Len(forecast_summary) :
                               forecast_summary[j].sku = s => j <= i
        IN forecast_summary[last].total_forecast]

\* the net need of one inventory row, before the net_qty > 0 filter
NetRow(inv, forecast_by_sku) ==
    LET available == inv.current_stock + inv.in_transit
        safety == inv.safety_stock
        forecast == Get(forecast_by_sku, inv.sku, 0)
        need == Max0(forecast + safety - available)
        product_info == Get(inv, "products", EmptyDict)
        moq == Get(product_info, "moq", 1)
        net_qty == IF need > 0 /\ need < moq THEN moq ELSE need
        urgency == IF inv.current_stock <= inv.safety_stock THEN "critical" ELSE "normal"
    IN [sku |-> inv.sku, net_qty |-> net_qty, current_stock |-> inv.current_stock,
        in_transit |-> inv.in_transit, safety_stock |-> inv.safety_stock,
        forecast_demand |-> forecast, urgency |-> urgency, moq |-> moq]

IsNeeded(row) == row.net_qty > 0

NetRequirements(inventory, forecast_by_sku) ==
    SelectSeq([i \in 1..Len(inventory) |-> NetRow(inventory[i], forecast_by_sku)], IsNeeded)

SkuOf(row) == row.sku

\* both `except` branches around get_llm / llm.invoke return the same record shape
demand_llm_failed(st, run_id, inventory, forecast_summary, net_requirements, skus, horizon, llm) ==
    LET error_message ==
            IF llm.kind = "unreachable"
            THEN DemandAnalyst \o " could not reach OpenRouter: " \o llm.exc
            ELSE DemandAnalyst \o " OpenRouter request failed: " \o llm.exc
    IN Merge(st, [run_id |-> run_id, inventory_snapshot |-> inventory,
                  forecast_summary |-> forecast_summary,
                  net_requirements |-> net_requirements, skus_to_plan |-> skus,
                  current_agent |-> "demand_analyst", error |-> error_message,
                  agent_activity |-> update_agent_activity(st, DemandAnalyst, "failed",
                      error_message, Null, FALSE, llm.exc,
                      [inventory_count |-> Len(inventory),
                       net_requirements_count |-> Len(net_requirements),
                       horizon_months |-> horizon])])

\* rationale, confidence and llm_error after the parse attempt
demand_rationale(content, net_requirements, horizon) ==
    LET parsed == ParseRationale(content,
                      "Demand calculated from forecast minus available stock.", 85)
    IN IF parsed.ok
       THEN [rationale |-> parsed.rationale, confidence |-> parsed.confidence,
             llm_error |-> Null]
       ELSE [rationale |-> "Net requirements calculated: " \o ToString(Len(net_requirements))
                               \o " SKUs need replenishment across " \o ToString(horizon)
                               \o "-month horizon.",
             confidence |-> 85,
             llm_error |-> "OpenRouter response parse failed: " \o parsed.exc]

demand_log_entry(run_id, skus_requested, horizon, inventory, net_requirements, r) ==
    [run_id |-> run_id, agent_name |-> DemandAnalyst,
     inputs |-> [skus_requested |-> skus_requested, horizon_months |-> horizon,
                 inventory_count |-> Len(inventory)],
     output |-> [net_requirements_count |-> Len(net_requirements),
                 skus |-> Map(net_requirements, SkuOf)],
     confidence |-> r.confidence, rationale |-> r.rationale]

demand_completed(st, run_id, inventory, forecast_summary, net_requirements, skus, horizon, r) ==
    Merge(st, [run_id |-> run_id, inventory_snapshot |-> inventory,
               forecast_summary |-> forecast_summary,
               net_requirements |-> net_requirements, skus_to_plan |-> skus,
               demand_rationale |-> r.rationale, demand_confidence |-> r.confidence,
               current_agent |-> "demand_analyst", error |-> Null,
               agent_activity |-> update_agent_activity(st, DemandAnalyst, "completed",
                   r.rationale, r.confidence, TRUE, r.llm_error,
                   [inventory_count |-> Len(inventory),
                    net_requirements_count |-> Len(net_requirements),
                    sample_skus |-> Map(Take(net_requirements, 5), SkuOf),
                    horizon_months |-> horizon])])

\* faulty variant: every invocation draws a new run_id
demand_run_id_regenerated(st, fresh) == fresh

\* state.get('run_id', str(uuid.uuid4()))
demand_run_id(st, fresh) == Get(st, "run_id", fresh)

\* the node: env holds the outcome of each external call it may make
demand_analyst_node(st, fresh, env) ==
    LET run_id == demand_run_id(st, fresh)
        skus_requested == Get(st, "skus_to_plan", <<>>)
        horizon == Get(st, "planning_horizon_months", 3)
        c1 == <<Call("erp", "get_inventory", env.inv, NoIds)>>
        inventory == Get(env.inv.data, "inventory", <<>>)
        skus == Map(inventory, SkuOf)
        c2 == c1 \o <<Call("erp", "get_forecasts", env.fc, NoIds)>>
        forecast_summary == Get(env.fc.data, "summary_by_sku", <<>>)
        net_requirements == NetRequirements(inventory, ForecastBySku(forecast_summary))
        c3 == c2 \o <<LLMCall(env.llm)>>
        r == demand_rationale(env.llm.content, net_requirements, horizon)
        c4 == c3 \o <<Call("po", "log_decision", env.log,
                         [run_id |-> run_id, agent_name |-> DemandAnalyst])>>
    IN IF ~env.inv.ok
         THEN Return(demand_inventory_failed(st, run_id, skus_requested, horizon, env.inv.exc),
                     c1, <<>>, {})
       ELSE IF inventory = <<>>
         THEN Return(demand_no_inventory(st, skus_requested, horizon), c1, <<>>, {})
       ELSE IF ~env.fc.ok
         THEN Return(demand_forecast_failed(st, run_id, inventory, skus, horizon, env.fc.exc),
                     c2, <<>>, {})
       ELSE IF env.llm.kind # "response"
         THEN Return(demand_llm_failed(st, run_id, inventory, forecast_summary,
                                       net_requirements, skus, horizon, env.llm),
                     c3, <<>>, {})
       ELSE IF ~env.log.ok
         THEN Raise(env.log.exc, c4, <<>>, {})
       ELSE Return(demand_completed(st, run_id, inventory, forecast_summary,
                                    net_requirements, skus, horizon, r),
                   c4,
                   <<demand_log_entry(run_id, skus_requested, horizon, inventory,
                                      net_requirements, r)>>,
                   {})

----------------------------------------------------------------------------
(* Money: amounts are kept in thousandths of a dollar *)

\* round(x, 2): to the nearest cent, ties to the even cent
Round2(x) ==
    LET q == x \div 10
        rem == x % 10
    IN IF rem < 5 THEN 10 * q
       ELSE IF rem > 5 THEN 10 * (q + 1)
       ELSE IF q % 2 = 0 THEN 10 * q ELSE 10 * (q + 1)

\* f"{d:,}" for a whole number of dollars below a million
Comma(d) ==
    IF d < 1000 THEN ToString(d)
    ELSE LET low == d % 1000
         IN ToString(d \div 1000) \o ","
              \o (IF low < 10 THEN "00" ELSE IF low < 100 THEN "0" ELSE "") \o ToString(low)

\* f"{x:.2f}"
Fmt2(x) ==
    LET c == Round2(x) \div 10
        cents == c % 100
    IN ToString(c \div 100) \o "." \o (IF cents < 10 THEN "0" ELSE "") \o ToString(cents)

\* f"{x:,.2f}"
FmtC2(x) ==
    LET c == Round2(x) \div 10
        cents == c % 100
    IN Comma(c \div 100) \o "." \o (IF cents < 10 THEN "0" ELSE "") \o ToString(cents)

----------------------------------------------------------------------------
(* Agent 2: supplier_selector_node *)

SupplierSelector == "SupplierSelector"

Supplier1 ==
    [supplier_id |-> "S1", supplier_name |-> "Acme", unit_price |-> 2125, score |-> 91,
     lead_time_days |-> 14]

Supplier2 ==
    [supplier_id |-> "S2", supplier_name |-> "Bolt", unit_price |-> 4000, score |-> 77,
     lead_time_days |-> 30, moq_fit_pct |-> 80]

ScoreOutcomes ==
    {Fail(NotBuilt("supplier")),
     Ok(EmptyDict),
     Ok([ranked_suppliers |-> <<Supplier1, Supplier2>>, recommended_supplier |-> Supplier1])}

HasSupplier(s) == Truthy(Get(s, "supplier_id", Null))

\* faulty variant: reports the missing input in the activity entry only
supplier_precondition_failed_no_error(st) ==
    LET error_message == "No net requirements - demand analyst must run first"
    IN Merge(st, [error |-> Null, current_agent |-> "supplier_selector",
                  agent_activity |-> update_agent_activity(st, SupplierSelector, "failed",
                      error_message, Null, FALSE, Null, [net_requirements_count |-> 0])])

supplier_precondition_failed(st) ==
    LET error_message == "No net requirements - demand analyst must run first"
    IN Merge(st, [error |-> error_message, current_agent |-> "supplier_selector",
                  agent_activity |-> update_agent_activity(st, SupplierSelector, "failed",
                      error_message, Null, FALSE, Null, [net_requirements_count |-> 0])])

\* faulty variant: drops the item when score_suppliers failed
selection_for_drops_failed(req, out) ==
    IF ~out.ok THEN <<>>
    ELSE IF Get(out.data, "recommended_supplier", EmptyDict) = EmptyDict THEN <<>>
    ELSE <<[sku |-> req.sku, supplier_id |-> out.data.recommended_supplier.supplier_id,
            net_qty |-> req.net_qty, urgency |-> req.urgency]>>

\* what one pass of the loop appends for `req`, given the score_suppliers outcome
selection_for(req, out) ==
    IF ~out.ok
    THEN <<[sku |-> req.sku, supplier_id |-> Null, error |-> out.exc,
            net_qty |-> req.net_qty, urgency |-> req.urgency]>>
    ELSE LET ranked == Get(out.data, "ranked_suppliers", <<>>)
             recommended == Get(out.data, "recommended_supplier", EmptyDict)
         IN IF recommended = EmptyDict THEN <<>>
            ELSE <<[sku |-> req.sku,
                    supplier_id |-> recommended.supplier_id,
                    supplier_name |-> recommended.supplier_name,
                    unit_price |-> recommended.unit_price,
                    score |-> recommended.score,
                    lead_time_days |-> recommended.lead_time_days,
                    net_qty |-> req.net_qty,
                    urgency |-> req.urgency,
                    rationale |-> "Selected " \o recommended.supplier_name
                        \o " (score " \o ToString(recommended.score) \o "/100): $"
                        \o Fmt2(recommended.unit_price) \o "/unit, "
                        \o ToString(recommended.lead_time_days) \o "d lead time, MOQ fit "
                        \o ToString(Get(recommended, "moq_fit_pct", 100)) \o "%",
                    all_candidates |-> Take(ranked, 3)]>>

\* supplier_selections after the loop over net_requirements[i..]
RECURSIVE SelectionLoop(_, _, _)
SelectionLoop(net_requirements, scores, i) ==
    IF i > Len(net_requirements) THEN <<>>
    ELSE selection_for(net_requirements[i], scores[i])
            \o SelectionLoop(net_requirements, scores, i + 1)

\* total_scored: the passes that appended a recommended supplier
TotalScored(net_requirements, scores) ==
    Cardinality({i \in 1..Len(net_requirements) :
                    scores[i].ok /\ Get(scores[i].data, "recommended_supplier", EmptyDict) # EmptyDict})

supplier_llm_failed(st, supplier_selections, total_scored, net_requirements, llm) ==
    LET error_message ==
            IF llm.kind = "unreachable"
            THEN SupplierSelector \o " could not reach OpenRouter: " \o llm.exc
            ELSE SupplierSelector \o " OpenRouter request failed: " \o llm.exc
    IN Merge(st, [supplier_selections |-> supplier_selections,
                  current_agent |-> "supplier_selector", error |-> error_message,
                  agent_activity |-> update_agent_activity(st, SupplierSelector, "failed",
                      error_message, Null, FALSE, llm.exc,
                      [matched_count |-> total_scored,
                       net_requirements_count |-> Len(net_requirements)])])

supplier_rationale(content, total_scored, net_requirements) ==
    LET parsed == ParseRationale(content, "", 82)
    IN IF parsed.ok
       THEN [rationale |-> parsed.rationale, confidence |-> parsed.confidence,
             llm_error |-> Null]
       ELSE [rationale |-> "Supplier selected for " \o ToString(total_scored) \o "/"
                               \o ToString(Len(net_requirements))
                               \o " SKUs using weighted scoring.",
             confidence |-> 82,
             llm_error |-> "OpenRouter response parse failed: " \o parsed.exc]

SelectionBrief(s) == [sku |-> s.sku, supplier |-> Get(s, "supplier_id", Null)]

supplier_log_entry(run_id, net_requirements, supplier_selections, total_scored, r) ==
    [run_id |-> run_id, agent_name |-> SupplierSelector,
     inputs |-> [sku_count |-> Len(net_requirements)],
     output |-> [matched_count |-> total_scored,
                 selections |-> Map(supplier_selections, SelectionBrief)],
     confidence |-> r.confidence, rationale |-> r.rationale]

TopSupplier(s) ==
    [sku |-> s.sku, supplier_id |-> Get(s, "supplier_id", Null),
     score |-> Get(s, "score", Null)]

\* faulty variant: leaves current_agent as the previous node set it
supplier_completed_keeps_agent(st, supplier_selections, total_scored, net_requirements, r) ==
    Merge(st, [supplier_selections |-> supplier_selections,
               supplier_rationale |-> r.rationale, supplier_confidence |-> r.confidence,
               error |-> Null,
               agent_activity |-> update_agent_activity(st, SupplierSelector, "completed",
                   r.rationale, r.confidence, TRUE, r.llm_error, EmptyDict)])

supplier_completed(st, supplier_selections, total_scored, net_requirements, r) ==
    Merge(st, [supplier_selections |-> supplier_selections,
               supplier_rationale |-> r.rationale, supplier_confidence |-> r.confidence,
               current_agent |-> "supplier_selector", error |-> Null,
               agent_activity |-> update_agent_activity(st, SupplierSelector, "completed",
                   r.rationale, r.confidence, TRUE, r.llm_error,
                   [matched_count |-> total_scored,
                    net_requirements_count |-> Len(net_requirements),
                    top_suppliers |-> Map(Take(supplier_selections, 5), TopSupplier)])])

ScoreCall(out) == Call("supplier", "score_suppliers", out, NoIds)

supplier_selector_node(st, env) ==
    LET run_id == Get(st, "run_id", "unknown")
        net_requirements == Get(st, "net_requirements", <<>>)
        supplier_selections == SelectionLoop(net_requirements, env.scores, 1)
        total_scored == TotalScored(net_requirements, env.scores)
        c1 == Map(SubSeq(env.scores, 1, Len(net_requirements)), ScoreCall)
        c2 == c1 \o <<LLMCall(env.llm)>>
        r == supplier_rationale(env.llm.content, total_scored, net_requirements)
        c3 == c2 \o <<Call("po", "log_decision", env.log,
                         [run_id |-> run_id, agent_name |-> SupplierSelector])>>
    IN IF net_requirements = <<>>
         THEN Return(supplier_precondition_failed(st), <<>>, <<>>, {})
       ELSE IF env.llm.kind # "response"
         THEN Return(supplier_llm_failed(st, supplier_selections, total_scored,
                                         net_requirements, env.llm),
                     c2, <<>>, {})
       ELSE IF ~env.log.ok
         THEN Raise(env.log.exc, c3, <<>>, {})
       ELSE Return(supplier_completed(st, supplier_selections, total_scored,
                                      net_requirements, r),
                   c3,
                   <<supplier_log_entry(run_id, net_requirements, supplier_selections,
                                        total_scored, r)>>,
                   {})

----------------------------------------------------------------------------
(* Agent 3: container_optimizer_node *)

ContainerOptimizer == "ContainerOptimizer"

\* f"{x:,.0f}" of an amount
Fmt0(x) ==
    LET q == x \div 1000
        rem == x % 1000
    IN Comma(IF rem < 500 THEN q
             ELSE IF rem > 500 THEN q + 1
             ELSE IF q % 2 = 0 THEN q ELSE q + 1)

ProductsOutcomes ==
    {Fail("MCP server 'erp' exited 1"),
     Ok(EmptyDict),
     Ok([products |-> [i \in 1..MaxItems |->
                          [sku |-> SkuNames[i], unit_weight_kg |-> 2500, unit_cbm |-> 40]]])}

FullPlan ==
    [container_type |-> "40ft", num_containers |-> 1, volume_utilisation_pct |-> 80,
     weight_utilisation_pct |-> 40, binding_utilisation_pct |-> 80,
     estimated_freight_usd |-> 3200000]

PlanOutcomes ==
    {Fail("MCP tool 'calculate_container_plan' failed: no container fits"),
     Ok(EmptyDict),
     Ok([recommended_plan |-> FullPlan, total_cbm |-> 12])}

container_precondition_failed(st, supplier_selections) ==
    LET error_message == "No valid supplier selections for container planning"
    IN Merge(st, [error |-> error_message, current_agent |-> "container_optimizer",
                  agent_activity |-> update_agent_activity(st, ContainerOptimizer, "failed",
                      error_message, Null, FALSE, Null,
                      [supplier_selection_count |-> Len(supplier_selections)])])

container_products_failed(st, skus, exc) ==
    LET error_message == ContainerOptimizer \o " could not load product dimensions: " \o exc
    IN Merge(st, [current_agent |-> "container_optimizer", error |-> error_message,
                  agent_activity |-> update_agent_activity(st, ContainerOptimizer, "failed",
                      error_message, Null, FALSE, Null, [sku_count |-> Len(skus)])])

\* {p['sku']: p for p in products}
ProductsBySku(products) ==
    [s \in {products[i].sku : i \in 1..Len(products)} |->
        products[CHOOSE i \in 1..Len(products) :
                    /\ products[i].sku = s
                    /\ \A j \in 1..Len(products) : products[j].sku = s => j <= i]]

LineItems(valid_selections, products_by_sku) ==
    [i \in 1..Len(valid_selections) |->
        LET sel == valid_selections[i]
            prod == Get(products_by_sku, sel.sku, EmptyDict)
        IN [sku |-> sel.sku, qty |-> sel.net_qty,
            unit_weight_kg |-> Get(prod, "unit_weight_kg", 1000),
            unit_cbm |-> Get(prod, "unit_cbm", 10)]]

OrderLineItems(valid_selections) ==
    [i \in 1..Len(valid_selections) |->
        LET sel == valid_selections[i]
        IN [sku |-> sel.sku, supplier_id |-> sel.supplier_id, qty |-> sel.net_qty,
            unit_price |-> sel.unit_price, rationale |-> Get(sel, "rationale", "")]]

\* faulty variant: records the failure in the activity entry but leaves error unset
container_plan_failed_no_error(st, order_line_items, line_items, exc) ==
    LET error_message == ContainerOptimizer \o " could not calculate a container plan: " \o exc
    IN Merge(st, [order_line_items |-> order_line_items,
                  current_agent |-> "container_optimizer", error |-> Null,
                  agent_activity |-> update_agent_activity(st, ContainerOptimizer, "failed",
                      error_message, Null, FALSE, Null, [sku_count |-> Len(line_items)])])

container_plan_failed(st, order_line_items, line_items, exc) ==
    LET error_message == ContainerOptimizer \o " could not calculate a container plan: " \o exc
    IN Merge(st, [order_line_items |-> order_line_items,
                  current_agent |-> "container_optimizer", error |-> error_message,
                  agent_activity |-> update_agent_activity(st, ContainerOptimizer, "failed",
                      error_message, Null, FALSE, Null, [sku_count |-> Len(line_items)])])

\* faulty variant: returns the failure without the outputs computed so far
container_llm_failed_drops_outputs(st, order_line_items, container_plan, line_items, llm) ==
    LET error_message == ContainerOptimizer \o " could not reach OpenRouter: " \o llm.exc
    IN Merge(st, [current_agent |-> "container_optimizer", error |-> error_message,
                  agent_activity |-> update_agent_activity(st, ContainerOptimizer, "failed",
                      error_message, Null, FALSE, llm.exc,
                      [sku_count |-> Len(line_items)])])

container_llm_failed(st, order_line_items, container_plan, line_items, llm) ==
    LET error_message ==
            IF llm.kind = "unreachable"
            THEN ContainerOptimizer \o " could not reach OpenRouter: " \o llm.exc
            ELSE ContainerOptimizer \o " OpenRouter request failed: " \o llm.exc
    IN Merge(st, [order_line_items |-> order_line_items, container_plan |-> container_plan,
                  current_agent |-> "container_optimizer", error |-> error_message,
                  agent_activity |-> update_agent_activity(st, ContainerOptimizer, "failed",
                      error_message, Null, FALSE, llm.exc,
                      [sku_count |-> Len(line_items), container_plan |-> container_plan])])

container_rationale(content, container_plan) ==
    LET parsed == ParseRationale(content, "", 88)
        util == Get(container_plan, "binding_utilisation_pct", 0)
    IN IF parsed.ok
       THEN [rationale |-> parsed.rationale, confidence |-> parsed.confidence,
             llm_error |-> Null]
       ELSE [rationale |-> ToString(Get(container_plan, "num_containers", 1)) \o "x "
                               \o Get(container_plan, "container_type", "40ft")
                               \o " container(s) at " \o ToString(util)
                               \o "% utilisation, est. $"
                               \o Fmt0(Get(container_plan, "estimated_freight_usd", 0))
                               \o " freight.",
             confidence |-> 88,
             llm_error |-> "OpenRouter response parse failed: " \o parsed.exc]

container_log_entry(run_id, line_items, container_result, container_plan, r) ==
    [run_id |-> run_id, agent_name |-> ContainerOptimizer,
     inputs |-> [sku_count |-> Len(line_items),
                 total_cbm |-> Get(container_result, "total_cbm", Null)],
     output |-> container_plan,
     confidence |-> r.confidence, rationale |-> r.rationale]

container_completed(st, order_line_items, container_plan, line_items, r) ==
    Merge(st, [order_line_items |-> order_line_items, container_plan |-> container_plan,
               container_rationale |-> r.rationale, container_confidence |-> r.confidence,
               current_agent |-> "container_optimizer", error |-> Null,
               agent_activity |-> update_agent_activity(st, ContainerOptimizer, "completed",
                   r.rationale, r.confidence, TRUE, r.llm_error,
                   [sku_count |-> Len(line_items),
                    container_type |-> Get(container_plan, "container_type", Null),
                    num_containers |-> Get(container_plan, "num_containers", Null),
                    binding_utilisation_pct |->
                        Get(container_plan, "binding_utilisation_pct", Null),
                    estimated_freight_usd |->
                        Get(container_plan, "estimated_freight_usd", Null)])])

container_optimizer_node(st, env) ==
    LET run_id == Get(st, "run_id", "unknown")
        supplier_selections == Get(st, "supplier_selections", <<>>)
        valid_selections == SelectSeq(supplier_selections, HasSupplier)
        skus == Map(valid_selections, SkuOf)
        c1 == <<Call("erp", "get_products", env.products, NoIds)>>
        products_by_sku == ProductsBySku(Get(env.products.data, "products", <<>>))
        line_items == LineItems(valid_selections, products_by_sku)
        order_line_items == OrderLineItems(valid_selections)
        c2 == c1 \o <<Call("logistics", "calculate_container_plan", env.plan, NoIds)>>
        container_result == env.plan.data
        container_plan == Get(container_result, "recommended_plan", EmptyDict)
        c3 == c2 \o <<LLMCall(env.llm)>>
        r == container_rationale(env.llm.content, container_plan)
        c4 == c3 \o <<Call("po", "log_decision", env.log,
                         [run_id |-> run_id, agent_name |-> ContainerOptimizer])>>
    IN IF valid_selections = <<>>
         THEN Return(container_precondition_failed(st, supplier_selections), <<>>, <<>>, {})
       ELSE IF ~env.products.ok
         THEN Return(container_products_failed(st, skus, env.products.exc), c1, <<>>, {})
       ELSE IF ~env.plan.ok
         THEN Return(container_plan_failed(st, order_line_items, line_items, env.plan.exc),
                     c2, <<>>, {})
       ELSE IF env.llm.kind # "response"
         THEN Return(container_llm_failed(st, order_line_items, container_plan, line_items,
                                          env.llm),
                     c3, <<>>, {})
       ELSE IF ~env.log.ok
         THEN Raise(env.log.exc, c4, <<>>, {})
       ELSE Return(container_completed(st, order_line_items, container_plan, line_items, r),
                   c4,
                   <<container_log_entry(run_id, line_items, container_result,
                                         container_plan, r)>>,
                   {})

----------------------------------------------------------------------------
(* Agent 4: po_compiler_node *)

POCompiler == "POCompiler"

PONumbers == {"PO-0001", "PO-0002"}

\* the order store numbers a new draft with a number it has not used
PoOutcomes(store) ==
    {Fail("MCP server 'po' exited 1"), Ok(EmptyDict)}
        \cup {Ok([po_number |-> n]) : n \in PONumbers \ {po.po_number : po \in store}}

\* get_llm / llm.invoke in the compiler: the response is plain text
NotesOutcomes ==
    {[kind |-> "unreachable", exc |-> "OPENROUTER_API_KEY is not configured."],
     [kind |-> "request_failed", exc |-> "Connection error."],
     [kind |-> "response", content |-> "Executive summary."]}

po_precondition_failed(st) ==
    LET error_message == "No order line items to compile"
    IN Merge(st, [error |-> error_message, current_agent |-> "po_compiler",
                  agent_activity |-> update_agent_activity(st, POCompiler, "failed",
                      error_message, Null, FALSE, Null, [line_item_count |-> 0])])

PoLines(order_line_items) ==
    [i \in 1..Len(order_line_items) |->
        LET item == order_line_items[i]
        IN [sku |-> item.sku, supplier_id |-> item.supplier_id, qty_ordered |-> item.qty,
            unit_price |-> item.unit_price, rationale |-> Get(item, "rationale", "")]]

\* sum(l['qty_ordered'] * l['unit_price'] for l in po_lines[i..])
RECURSIVE Subtotal(_, _)
Subtotal(po_lines, i) ==
    IF i > Len(po_lines) THEN 0
    ELSE po_lines[i].qty_ordered * po_lines[i].unit_price + Subtotal(po_lines, i + 1)

\* faulty variant: leaves the freight out of the total
Freight_ignored(container_plan) == 0

\* container_plan.get('estimated_freight_usd', 0) if container_plan else 0
Freight(container_plan) ==
    IF container_plan = EmptyDict THEN 0
    ELSE Get(container_plan, "estimated_freight_usd", 0)

\* faulty variant: returns the failure alone, without the fields of the record
po_llm_unreachable_bare(st, po_lines, subtotal, exc) ==
    [current_agent |-> "po_compiler",
     error |-> POCompiler \o " could not reach OpenRouter: " \o exc,
     agent_activity |-> EmptyDict]

po_llm_unreachable(st, po_lines, subtotal, exc) ==
    LET error_message == POCompiler \o " could not reach OpenRouter: " \o exc
    IN Merge(st, [current_agent |-> "po_compiler", error |-> error_message,
                  agent_activity |-> update_agent_activity(st, POCompiler, "failed",
                      error_message, Null, FALSE, exc,
                      [line_item_count |-> Len(po_lines),
                       subtotal_usd |-> Round2(subtotal)])])

\* faulty variant: no note is written when the generator failed
po_notes_no_fallback(llm, po_lines, subtotal, freight, total_usd) ==
    IF llm.kind = "response"
    THEN [notes |-> llm.content, llm_used |-> TRUE, llm_error |-> Null]
    ELSE [notes |-> Null, llm_used |-> FALSE,
          llm_error |-> "OpenRouter request failed: " \o llm.exc]

\* po_notes, llm_used and llm_error once the generator answered or failed non-fatally
po_notes(llm, po_lines, subtotal, freight, total_usd) ==
    IF llm.kind = "response"
    THEN [notes |-> llm.content, llm_used |-> TRUE, llm_error |-> Null]
    ELSE [notes |-> "Draft PO: " \o ToString(Len(po_lines)) \o " SKUs, subtotal $"
                        \o FmtC2(subtotal) \o ", est. freight $" \o Fmt0(freight)
                        \o ", total $" \o FmtC2(total_usd) \o ".",
          llm_used |-> FALSE,
          llm_error |-> "OpenRouter request failed: " \o llm.exc]

po_create_failed(st, po_lines, subtotal, n, exc) ==
    LET error_message == POCompiler \o " could not create the draft PO: " \o exc
    IN Merge(st, [current_agent |-> "po_compiler", error |-> error_message,
                  agent_activity |-> update_agent_activity(st, POCompiler, "failed",
                      error_message, Null, n.llm_used, n.llm_error,
                      [line_item_count |-> Len(po_lines),
                       subtotal_usd |-> Round2(subtotal)])])

po_no_number(st, po_lines, subtotal, n) ==
    LET error_message == "PO creation failed: {}"
    IN Merge(st, [error |-> error_message, current_agent |-> "po_compiler",
                  agent_activity |-> update_agent_activity(st, POCompiler, "failed",
                      error_message, Null, n.llm_used, n.llm_error,
                      [line_item_count |-> Len(po_lines),
                       subtotal_usd |-> Round2(subtotal)])])

po_rationale(po_number, po_lines, total_usd) ==
    "Draft PO " \o po_number \o " created with " \o ToString(Len(po_lines))
        \o " line items. Total $" \o FmtC2(total_usd)
        \o " (freight included). Awaiting planner review."

po_log_entry(run_id, po_number, po_lines, subtotal, total_usd, rationale) ==
    [run_id |-> run_id, po_number |-> po_number, agent_name |-> POCompiler,
     inputs |-> [line_item_count |-> Len(po_lines), subtotal_usd |-> Round2(subtotal)],
     output |-> [po_number |-> po_number, total_usd |-> Round2(total_usd),
                 status |-> "draft"],
     confidence |-> 95, rationale |-> rationale]

\* faulty variant: marks the draft approved
po_completed_approves(st, po_number, po_lines, subtotal, freight, total_usd, rationale, n) ==
    Merge(st, [po_number |-> po_number, po_total_usd |-> Round2(total_usd),
               po_rationale |-> rationale, approval_status |-> "approved",
               current_agent |-> "po_compiler", error |-> Null,
               agent_activity |-> update_agent_activity(st, POCompiler, "completed",
                   rationale, 95, n.llm_used, n.llm_error, EmptyDict)])

po_completed(st, po_number, po_lines, subtotal, freight, total_usd, rationale, n) ==
    Merge(st, [po_number |-> po_number, po_total_usd |-> Round2(total_usd),
               po_rationale |-> rationale, approval_status |-> "pending",
               current_agent |-> "po_compiler", error |-> Null,
               agent_activity |-> update_agent_activity(st, POCompiler, "completed",
                   rationale, 95, n.llm_used, n.llm_error,
                   [po_number |-> po_number, line_item_count |-> Len(po_lines),
                    subtotal_usd |-> Round2(subtotal), freight_usd |-> Round2(freight),
                    total_usd |-> Round2(total_usd)])])

\* the draft the order store keeps after a successful create_draft_po
DraftPO(po_number, run_id, triggered_by) ==
    [po_number |-> po_number, run_id |-> run_id, created_by |-> triggered_by]

po_compiler_node(st, env) ==
    LET run_id == Get(st, "run_id", "unknown")
        order_line_items == Get(st, "order_line_items", <<>>)
        container_plan == Get(st, "container_plan", EmptyDict)
        triggered_by == Get(st, "triggered_by", "system")
        po_lines == PoLines(order_line_items)
        subtotal == Subtotal(po_lines, 1)
        freight == Freight(container_plan)
        total_usd == subtotal + freight
        c1 == <<LLMCall(env.llm)>>
        n == po_notes(env.llm, po_lines, subtotal, freight, total_usd)
        c2 == c1 \o <<Call("po", "create_draft_po", env.po,
                         [run_id |-> run_id, created_by |-> triggered_by,
                          notes |-> n.notes])>>
        po_number == Get(env.po.data, "po_number", Null)
        created == {DraftPO(po_number, run_id, triggered_by)}
        rationale == po_rationale(po_number, po_lines, total_usd)
        c3 == c2 \o <<Call("po", "log_decision", env.log,
                         [run_id |-> run_id, agent_name |-> POCompiler])>>
    IN IF order_line_items = <<>>
         THEN Return(po_precondition_failed(st), <<>>, <<>>, {})
       ELSE IF env.llm.kind = "unreachable"
         THEN Return(po_llm_unreachable(st, po_lines, subtotal, env.llm.exc), c1, <<>>, {})
       ELSE IF ~env.po.ok
         THEN Return(po_create_failed(st, po_lines, subtotal, n, env.po.exc), c2, <<>>, {})
       ELSE IF ~Truthy(po_number)
         THEN Return(po_no_number(st, po_lines, subtotal, n), c2, <<>>, {})
       ELSE IF ~env.log.ok
         THEN Raise(env.log.exc, c3, <<>>, created)
       ELSE Return(po_completed(st, po_number, po_lines, subtotal, freight, total_usd,
                                rationale, n),
                   c3,
                   <<po_log_entry(run_id, po_number, po_lines, subtotal, total_usd,
                                  rationale)>>,
                   created)

----------------------------------------------------------------------------
(* The graph: routers, channels and run_pipeline *)

\* faulty variant: forgets the empty-requirements exit
route_after_demand_ignores_empty(st) ==
    IF Truthy(Get(st, "error", Null)) THEN "end"
    ELSE "supplier_selector"

\* faulty variant: runs demand_analyst again after a failure
route_after_demand_retries(st) ==
    IF Truthy(Get(st, "error", Null)) THEN "demand_analyst"
    ELSE IF Get(st, "net_requirements", <<>>) = <<>> THEN "end"
    ELSE "supplier_selector"

route_after_demand(st) ==
    IF Truthy(Get(st, "error", Null)) THEN "end"
    ELSE IF Get(st, "net_requirements", <<>>) = <<>> THEN "end"
    ELSE "supplier_selector"

\* faulty variant: counts selections without a supplier as matched
route_after_supplier_counts_all(st) ==
    IF Truthy(Get(st, "error", Null)) THEN "end"
    ELSE IF Get(st, "supplier_selections", <<>>) = <<>> THEN "end"
    ELSE "container_optimizer"

route_after_supplier(st) ==
    IF Truthy(Get(st, "error", Null)) THEN "end"
    ELSE IF SelectSeq(Get(st, "supplier_selections", <<>>), HasSupplier) = <<>> THEN "end"
    ELSE "container_optimizer"

\* faulty variant: enters po_compiler whatever container_optimizer returned
route_after_container_ignores_error(st) == "po_compiler"

\* faulty variant: ends the run when the container plan is empty
route_after_container_needs_plan(st) ==
    IF Truthy(Get(st, "error", Null)) THEN "end"
    ELSE IF Get(st, "container_plan", EmptyDict) = EmptyDict THEN "end"
    ELSE "po_compiler"

route_after_container(st) ==
    IF Truthy(Get(st, "error", Null)) THEN "end"
    ELSE "po_compiler"

\* the nodes, in the order build_pipeline chains them
Stages == <<"demand_analyst", "supplier_selector", "container_optimizer", "po_compiler">>

Range(seq) == {seq[i] : i \in DOMAIN seq}

\* the keys PipelineState declares: the channels of StateGraph(PipelineState)
PipelineState ==
    {"run_id", "triggered_by", "planning_horizon_months", "skus_to_plan",
     "inventory_snapshot", "forecast_summary", "net_requirements", "demand_rationale",
     "demand_confidence", "supplier_selections", "supplier_rationale",
     "supplier_confidence", "order_line_items", "container_plan", "container_rationale",
     "container_confidence", "po_number", "po_total_usd", "po_rationale",
     "approval_status", "reviewer_notes", "line_item_overrides", "error", "current_agent"}

\* a node's returned record is written to the graph's channels, key by key
ApplyUpdate(st, rec) ==
    Merge(st, [k \in (DOMAIN rec) \cap PipelineState |-> rec[k]])

initial_state(run_id, skus, triggered_by, horizon) ==
    [run_id |-> run_id, triggered_by |-> triggered_by,
     planning_horizon_months |-> horizon, skus_to_plan |-> skus,
     approval_status |-> "pending", current_agent |-> "orchestrator"]

\* run_pipeline's arguments
SkuFilters == {<<>>, <<"A">>}
Actors == {"planner"}
Horizons == {3, 6}

\* ret and result before anything was returned
Nothing == [kind |-> "none"]

\* run_ids already given to a run
UsedRunIds == {state[r].run_id : r \in {q \in Runs : "run_id" \in DOMAIN state[q]}}

\* faulty variant: every run is given the same identifier
uuid4_constant == CHOOSE u \in UUIDs : TRUE

\* str(uuid.uuid4()): a value no run has been given
uuid4 == CHOOSE u \in UUIDs \ UsedRunIds : TRUE

Init ==
    /\ pc = [r \in Runs |-> "idle"]
    /\ state = [r \in Runs |-> EmptyDict]
    /\ ret = [r \in Runs |-> Nothing]
    /\ executed = [r \in Runs |-> <<>>]
    /\ result = [r \in Runs |-> Nothing]
    /\ calls = <<>>
    /\ audit_log = <<>>
    /\ po_store = {}
    /\ mcp = [phase |-> "idle", processes |-> <<>>]

\* run_pipeline up to pipeline.invoke: the initial record enters the graph
run_pipeline(r) ==
    /\ pc[r] = "idle"
    /\ \E skus \in SkuFilters, triggered_by \in Actors, horizon \in Horizons,
          run_id \in {uuid4} :
          state' = [state EXCEPT ![r] =
                        ApplyUpdate(EmptyDict, initial_state(run_id, skus, triggered_by, horizon))]
    /\ pc' = [pc EXCEPT ![r] = "demand_analyst"]
    /\ UNCHANGED <<ret, executed, result, calls, audit_log, po_store, mcp>>

\* the graph runs node `name` of run r, which ends as `out`
NodeStep(r, name, out, next) ==
    /\ executed' = [executed EXCEPT ![r] = Append(@, name)]
    /\ calls' = calls \o [i \in 1..Len(out.calls) |->
                            [run |-> r, stage |-> name, server |-> out.calls[i].server,
                             tool |-> out.calls[i].tool, ok |-> out.calls[i].ok,
                             args |-> out.calls[i].args, exc |-> out.calls[i].exc]]
    /\ audit_log' = audit_log \o out.logged
    /\ po_store' = po_store \cup out.created
    /\ UNCHANGED mcp
    /\ IF out.kind = "return"
       THEN /\ ret' = [ret EXCEPT ![r] = [kind |-> "return", stage |-> name, rec |-> out.rec]]
            /\ state' = [state EXCEPT ![r] = ApplyUpdate(@, out.rec)]
            /\ pc' = [pc EXCEPT ![r] = next]
            /\ UNCHANGED result
       ELSE /\ ret' = [ret EXCEPT ![r] = [kind |-> "raise", stage |-> name, exc |-> out.exc]]
            /\ result' = [result EXCEPT ![r] = [kind |-> "raise", exc |-> out.exc]]
            /\ pc' = [pc EXCEPT ![r] = "raised"]
            /\ UNCHANGED state

demand_analyst(r) ==
    /\ pc[r] = "demand_analyst"
    /\ \E inv \in InventoryOutcomes, fc \in ForecastOutcomes, llm \in LLMOutcomes,
          log \in LogOutcomes, fresh \in UUIDs :
          NodeStep(r, "demand_analyst",
                   demand_analyst_node(state[r], fresh,
                                       [inv |-> inv, fc |-> fc, llm |-> llm, log |-> log]),
                   "route_after_demand")

RouteAfterDemand(r) ==
    /\ pc[r] = "route_after_demand"
    /\ pc' = [pc EXCEPT ![r] = route_after_demand(state[r])]
    /\ UNCHANGED <<state, ret, executed, result, calls, audit_log, po_store, mcp>>

supplier_selector(r) ==
    /\ pc[r] = "supplier_selector"
    /\ \E scores \in [1..MaxItems -> ScoreOutcomes], llm \in LLMOutcomes, log \in LogOutcomes :
          NodeStep(r, "supplier_selector",
                   supplier_selector_node(state[r],
                                          [scores |-> scores, llm |-> llm, log |-> log]),
                   "route_after_supplier")

RouteAfterSupplier(r) ==
    /\ pc[r] = "route_after_supplier"
    /\ pc' = [pc EXCEPT ![r] = route_after_supplier(state[r])]
    /\ UNCHANGED <<state, ret, executed, result, calls, audit_log, po_store, mcp>>

container_optimizer(r) ==
    /\ pc[r] = "container_optimizer"
    /\ \E products \in ProductsOutcomes, plan \in PlanOutcomes, llm \in LLMOutcomes,
          log \in LogOutcomes :
          NodeStep(r, "container_optimizer",
                   container_optimizer_node(state[r],
                       [products |-> products, plan |-> plan, llm |-> llm, log |-> log]),
                   "route_after_container")

RouteAfterContainer(r) ==
    /\ pc[r] = "route_after_container"
    /\ pc' = [pc EXCEPT ![r] = route_after_container(state[r])]
    /\ UNCHANGED <<state, ret, executed, result, calls, audit_log, po_store, mcp>>

\* graph.add_edge('po_compiler', END)
po_compiler(r) ==
    /\ pc[r] = "po_compiler"
    /\ \E llm \in NotesOutcomes, po \in PoOutcomes(po_store), log \in LogOutcomes :
          NodeStep(r, "po_compiler",
                   po_compiler_node(state[r], [llm |-> llm, po |-> po, log |-> log]),
                   "end")

\* pipeline.invoke returns the channels' values and run_pipeline returns them
run_pipeline_return(r) ==
    /\ pc[r] = "end"
    /\ result' = [result EXCEPT ![r] = [kind |-> "return", rec |-> state[r]]]
    /\ pc' = [pc EXCEPT ![r] = "returned"]
    /\ UNCHANGED <<state, ret, executed, calls, audit_log, po_store, mcp>>

\* the body run_pipeline_endpoint answers with, from the record run_pipeline returned
run_pipeline_endpoint(rec) ==
    [status |-> IF Truthy(Get(rec, "error", Null)) THEN "error" ELSE "completed",
     run_id |-> Get(rec, "run_id", Null),
     po_number |-> Get(rec, "po_number", Null),
     po_total_usd |-> Get(rec, "po_total_usd", Null),
     approval_status |-> Get(rec, "approval_status", Null),
     net_requirements_count |-> Len(Get(rec, "net_requirements", <<>>)),
     supplier_selections_count |-> Len(Get(rec, "supplier_selections", <<>>)),
     error |-> Get(rec, "error", Null)]

Step(r) ==
    \/ run_pipeline(r)
    \/ demand_analyst(r)
    \/ RouteAfterDemand(r)
    \/ supplier_selector(r)
    \/ RouteAfterSupplier(r)
    \/ container_optimizer(r)
    \/ RouteAfterContainer(r)
    \/ po_compiler(r)
    \/ run_pipeline_return(r)

\* one trigger: a single call of run_pipeline
Next == Step("r1")

Spec == Init /\ [][Next]_vars

\* pipeline.invoke runs on until the graph has ended: every external call returns
\* or fails (the client bounds each provider call by its timeout), so a step that
\* can be taken is taken (every step moves the run's position)
LiveSpec == Init /\ [][Next]_vars /\ WF_pc(Next)

----------------------------------------------------------------------------
(* Direct invocation: a node is a plain function of a record, and a caller    *)
(* other than the compiled graph may hand it any record                       *)

\* one net requirement, as demand_analyst_node appends it
DirectRequirement == NetRow(LowRow("A"), EmptyDict)

\* a selection without a supplier and one with a supplier
DirectUnmatched ==
    [sku |-> "A", supplier_id |-> Null, error |-> "MCP server 'supplier' exited 1",
     net_qty |-> 10, urgency |-> "critical"]

DirectMatched == selection_for(DirectRequirement, Ok([recommended_supplier |-> Supplier1]))[1]

\* an upstream field: absent (the empty record) or present with one of `values`
Optional(field, values) == {EmptyDict} \cup {field :> v : v \in values}

\* the records a direct caller hands to a node
DirectRecords ==
    {Merge(Merge(Merge(Merge(id, nr), ss), oli),
           [triggered_by |-> "planner", planning_horizon_months |-> 3])
        : id \in Optional("run_id", {"uuid-1"}),
          nr \in Optional("net_requirements", {<<>>, <<DirectRequirement>>}),
          ss \in Optional("supplier_selections",
                          {<<>>, <<DirectUnmatched>>, <<DirectUnmatched, DirectMatched>>}),
          oli \in Optional("order_line_items", {<<>>, OrderLineItems(<<DirectMatched>>)})}

\* the caller picks a node and a record
invoke_node(r) ==
    /\ pc[r] = "idle"
    /\ \E rec \in DirectRecords, node \in Range(Stages) :
          /\ state' = [state EXCEPT ![r] = rec]
          /\ pc' = [pc EXCEPT ![r] = node]
    /\ UNCHANGED <<ret, executed, result, calls, audit_log, po_store, mcp>>

DirectNext ==
    \/ invoke_node("r1")
    \/ demand_analyst("r1")
    \/ supplier_selector("r1")
    \/ container_optimizer("r1")
    \/ po_compiler("r1")

DirectSpec == Init /\ [][DirectNext]_vars

----------------------------------------------------------------------------
(* Two callers trigger run_pipeline on the one compiled graph; their steps     *)
(* interleave freely                                                           *)

\* the world of the two runs: both plan three months ahead without a SKU filter,
\* the stock list has one row (SKU A, short of stock or not), the forecast is
\* there, every item finds a supplier and a container plan, the generator
\* answers, no node ends failed, and of the provider calls only the demand
\* stage's log_decision may fail
TwoRunWorld ==
    /\ \A i \in DOMAIN calls :
          /\ calls[i].ok \/ (calls[i].tool = "log_decision" /\ calls[i].stage = "demand_analyst")
          /\ calls[i].server = "openrouter" =>
                calls[i].args.content \in {"{rationale, confidence}", "Executive summary."}
    /\ \A r \in Runs :
          /\ "planning_horizon_months" \in DOMAIN state[r] =>
                state[r].planning_horizon_months = 3
          /\ pc[r] = "demand_analyst" => state[r].skus_to_plan = <<>>
          /\ "inventory_snapshot" \in DOMAIN state[r] =>
                /\ Len(state[r].inventory_snapshot) = 1
                /\ state[r].inventory_snapshot[1].sku = "A"
          /\ "forecast_summary" \in DOMAIN state[r] => state[r].forecast_summary # <<>>
          /\ "supplier_selections" \in DOMAIN state[r] =>
                \A i \in DOMAIN state[r].supplier_selections :
                    HasSupplier(state[r].supplier_selections[i])
          /\ "container_plan" \in DOMAIN state[r] => state[r].container_plan = FullPlan
          /\ ~Truthy(Get(state[r], "error", Null))

ConcurrentNext == \E r \in Runs : Step(r) /\ TwoRunWorld'

ConcurrentSpec == Init /\ [][ConcurrentNext]_vars

----------------------------------------------------------------------------
(* The MCP client on its own: a caller invokes call_mcp_tool                  *)

\* the requests a caller makes
McpRequests ==
    {[server_key |-> "erp", tool_name |-> "get_inventory",
      arguments |-> [below_reorder_only |-> TRUE]],
     [server_key |-> "po", tool_name |-> "log_decision",
      arguments |-> [run_id |-> "uuid-1", agent_name |-> DemandAnalyst]]}

\* the world an invocation meets: the provider's artifact is missing, or it is
\* there and the process started from it behaves in one of the ways above
McpWorlds ==
    {[built |-> FALSE, proc |-> Nothing]}
        \cup {[built |-> TRUE, proc |-> p] : p \in ProcOutcomes}

\* a caller is about to invoke call_mcp_tool
ClientInit ==
    /\ pc = [r \in Runs |-> "idle"]
    /\ state = [r \in Runs |-> EmptyDict]
    /\ ret = [r \in Runs |-> Nothing]
    /\ executed = [r \in Runs |-> <<>>]
    /\ result = [r \in Runs |-> Nothing]
    /\ calls = <<>>
    /\ audit_log = <<>>
    /\ po_store = {}
    /\ \E req \in McpRequests, world \in McpWorlds :
          mcp = [phase |-> "calling", processes |-> <<>>, request |-> req,
                 built |-> world.built, proc |-> world.proc, outcome |-> Nothing]

\* one invocation of call_mcp_tool, from the existence check to return or raise
mcp_invoke ==
    /\ mcp.phase = "calling"
    /\ LET out == call_mcp_tool(mcp.request.server_key, mcp.request.tool_name,
                                mcp.request.arguments, mcp.built, mcp.proc)
       IN mcp' = [mcp EXCEPT !.phase = "done",
                             !.processes = @ \o out.started,
                             !.outcome = out.outcome]
    /\ UNCHANGED <<pc, state, ret, executed, result, calls, audit_log, po_store>>

ClientNext == mcp_invoke

ClientSpec == ClientInit /\ [][ClientNext]_vars

----------------------------------------------------------------------------
(* Vocabulary of the properties *)

AgentNameOf(stage) ==
    CASE stage = "demand_analyst" -> DemandAnalyst
      [] stage = "supplier_selector" -> SupplierSelector
      [] stage = "container_optimizer" -> ContainerOptimizer
      [] stage = "po_compiler" -> POCompiler

Last(seq) == seq[Len(seq)]

\* the calls node s made in run r, as positions of the trace
CallsOf(r, s) == {i \in DOMAIN calls : calls[i].run = r /\ calls[i].stage = s}

\* node s of run r made a call of one of `tools` that failed
ToolFailed(r, s, tools) ==
    \E i \in CallsOf(r, s) : calls[i].tool \in tools /\ ~calls[i].ok

\* node s of run r asked the rationale generator and the request failed
LLMFailed(r, s) ==
    \E i \in CallsOf(r, s) : calls[i].server = "openrouter" /\ ~calls[i].ok

\* s is the last node run r executed; it returned a record marked failed, and the
\* run stands at its router or has ended
StageFailedAndStopped(r, s) ==
    /\ Last(executed[r]) = s
    /\ ret[r].kind = "return"
    /\ ret[r].stage = s
    /\ Truthy(Get(ret[r].rec, "error", Null))
    /\ ret[r].rec.agent_activity[AgentNameOf(s)].status = "failed"
    /\ Truthy(Get(state[r], "error", Null))
    /\ pc[r] \notin Range(Stages)

RunEnded(r) == pc[r] \in {"returned", "raised"}

----------------------------------------------------------------------------
(* C1..C10 *)

\* C1: no failure of an external call escapes a node as an exception: every node
\* that ran returned a record with an error field (null or set), and run_pipeline
\* is never left by an exception.
C1_NoExceptionEscapes ==
    \A r \in Runs :
        /\ ret[r].kind # "raise"
        /\ pc[r] # "raised"
        /\ ret[r].kind = "return" => "error" \in DOMAIN ret[r].rec

\* C2: every node invocation makes exactly one log_decision call, and that call
\* carries the run's run_id and the node's agent name.
C2_OneLogCallPerInvocation ==
    \A r \in Runs : \A s \in Range(executed[r]) :
        LET logs == {i \in CallsOf(r, s) : calls[i].tool = "log_decision"}
        IN /\ Cardinality(logs) = 1
           /\ \A i \in logs : /\ calls[i].args.run_id = state[r].run_id
                              /\ calls[i].args.agent_name = AgentNameOf(s)

\* C3: when a run that entered po_compiler has ended, the audit log holds exactly
\* four entries with the run's run_id, one per node, in traversal order.
C3_FourEntriesInOrder ==
    \A r \in Runs :
        (RunEnded(r) /\ "po_compiler" \in Range(executed[r])) =>
            LET entries == SelectSeq(audit_log, LAMBDA e : e.run_id = state[r].run_id)
            IN /\ Len(entries) = 4
               /\ \A k \in 1..4 : entries[k].agent_name = AgentNameOf(Stages[k])

\* C4: after demand_analyst returns, the run ends if error is set or
\* net_requirements is empty or absent, and otherwise the next node executed is
\* supplier_selector; a run that has ended executes no further node.
C4_RouteAfterDemand ==
    [][\A r \in Runs :
          /\ (pc[r] = "route_after_demand" /\ pc'[r] # pc[r]) =>
                 pc'[r] = IF \/ Truthy(Get(state[r], "error", Null))
                             \/ Get(state[r], "net_requirements", <<>>) = <<>>
                          THEN "end" ELSE "supplier_selector"
          /\ (pc[r] = "supplier_selector" /\ pc'[r] # pc[r]) =>
                 executed'[r] = Append(executed[r], "supplier_selector")
          /\ pc[r] = "end" => (executed'[r] = executed[r] /\ pc'[r] \in {"end", "returned"})
      ]_vars

\* a run ended after demand_analyst with no error and nothing to replenish
C4_Witness ==
    /\ pc["r1"] = "end"
    /\ executed["r1"] = <<"demand_analyst">>
    /\ state["r1"].error = Null
    /\ state["r1"].net_requirements = <<>>

\* C5: after supplier_selector returns, the run ends if error is set or no
\* selection has a supplier_id, and otherwise the next node executed is
\* container_optimizer.
C5_RouteAfterSupplier ==
    [][\A r \in Runs :
          /\ (pc[r] = "route_after_supplier" /\ pc'[r] # pc[r]) =>
                 pc'[r] = IF \/ Truthy(Get(state[r], "error", Null))
                             \/ \A i \in DOMAIN Get(state[r], "supplier_selections", <<>>) :
                                    state[r].supplier_selections[i].supplier_id = Null
                          THEN "end" ELSE "container_optimizer"
          /\ (pc[r] = "container_optimizer" /\ pc'[r] # pc[r]) =>
                 executed'[r] = Append(executed[r], "container_optimizer")
          /\ pc[r] = "end" => (executed'[r] = executed[r] /\ pc'[r] \in {"end", "returned"})
      ]_vars

\* a run ended after a successful supplier_selector that matched no item
C5_Witness ==
    /\ pc["r1"] = "end"
    /\ executed["r1"] = <<"demand_analyst", "supplier_selector">>
    /\ state["r1"].error = Null
    /\ state["r1"].supplier_selections # <<>>

\* C6: after container_optimizer returns, the run ends if error is set and
\* otherwise enters po_compiler, also with an empty container_plan; after
\* po_compiler the run always ends.
C6_RouteAfterContainer ==
    [][\A r \in Runs :
          /\ (pc[r] = "route_after_container" /\ pc'[r] # pc[r]) =>
                 pc'[r] = IF Truthy(Get(state[r], "error", Null))
                          THEN "end" ELSE "po_compiler"
          /\ (pc[r] = "po_compiler" /\ pc'[r] # pc[r]) =>
                 /\ executed'[r] = Append(executed[r], "po_compiler")
                 /\ pc'[r] \in {"end", "raised"}
          /\ pc[r] \in {"end", "raised"} =>
                 (executed'[r] = executed[r] /\ pc'[r] \in {pc[r], "returned"})
      ]_vars

\* po_compiler was entered although the container plan is empty
C6_Witness ==
    /\ pc["r1"] = "po_compiler"
    /\ state["r1"].container_plan = EmptyDict
    /\ state["r1"].error = Null

\* C7: the nodes a run executed are a prefix of demand, selection, optimization,
\* compilation (nothing skipped, reordered or repeated), non-empty once the run
\* has ended.
C7_StagePrefix ==
    \A r \in Runs :
        /\ Len(executed[r]) <= Len(Stages)
        /\ executed[r] = SubSeq(Stages, 1, Len(executed[r]))
        /\ (pc[r] \in {"end", "returned", "raised"} => executed[r] # <<>>)

\* a run that went through all four nodes and returned
C7_Witness ==
    /\ pc["r1"] = "returned"
    /\ executed["r1"] = Stages

PrimaryTools ==
    {"get_inventory", "get_forecasts", "score_suppliers", "get_products",
     "calculate_container_plan", "create_draft_po"}

DerivedFrom(tool) ==
    CASE tool = "get_inventory" -> {"inventory_snapshot"}
      [] tool = "get_forecasts" -> {"forecast_summary", "net_requirements"}
      [] tool = "score_suppliers" -> {"supplier_selections"}
      [] tool = "get_products" -> {"order_line_items"}
      [] tool = "calculate_container_plan" -> {"container_plan"}
      [] tool = "create_draft_po" -> {"po_number"}
      [] OTHER -> {}

DomainOutputs(s) ==
    CASE s = "demand_analyst" -> {"net_requirements"}
      [] s = "supplier_selector" -> {"supplier_selections"}
      [] s = "container_optimizer" -> {"order_line_items", "container_plan"}

----------------------------------------------------------------------------
(* C11..C20 *)

\* the three nodes that ask the generator for a JSON rationale
RationaleStages == {"demand_analyst", "supplier_selector", "container_optimizer"}

RationaleField(s) ==
    CASE s = "demand_analyst" -> "demand_rationale"
      [] s = "supplier_selector" -> "supplier_rationale"
      [] s = "container_optimizer" -> "container_rationale"

\* the fields a node computes itself (rationale and bookkeeping fields aside)
OwnOutputs(s) ==
    CASE s = "demand_analyst" -> {"inventory_snapshot", "forecast_summary", "net_requirements"}
      [] s = "supplier_selector" -> {"supplier_selections"}
      [] s = "container_optimizer" -> {"order_line_items", "container_plan"}

\* the generator answered node s of run r with a text json.loads rejects
ParseFailed(r, s) ==
    \E i \in CallsOf(r, s) :
        /\ calls[i].server = "openrouter"
        /\ calls[i].ok
        /\ ~JsonLoads(calls[i].args.content).ok

Unparseable == [kind |-> "response", content |-> "not json"]

\* other invocations of node s that also met an unparseable response: other
\* parameters, other upstream records, other tool outcomes
OtherInvocations(s) ==
    CASE s = "demand_analyst" ->
            {demand_analyst_node(initial_state("uuid-2", sk, a, h), "uuid-2",
                                 [inv |-> inv, fc |-> fc, llm |-> Unparseable,
                                  log |-> Ok([logged |-> TRUE])])
                : sk \in SkuFilters, a \in Actors, h \in Horizons,
                  inv \in InventoryOutcomes, fc \in ForecastOutcomes}
      [] s = "supplier_selector" ->
            {supplier_selector_node([run_id |-> "uuid-2",
                                     net_requirements |-> NetRequirements(rows, EmptyDict)],
                                    [scores |-> sc, llm |-> Unparseable,
                                     log |-> Ok([logged |-> TRUE])])
                : rows \in InventoryLists, sc \in [1..MaxItems -> ScoreOutcomes]}
      [] s = "container_optimizer" ->
            {container_optimizer_node([run_id |-> "uuid-2", supplier_selections |-> sel],
                                      [products |-> pr, plan |-> pl, llm |-> Unparseable,
                                       log |-> Ok([logged |-> TRUE])])
                : sel \in {<<DirectMatched>>, <<DirectUnmatched, DirectMatched>>},
                  pr \in ProductsOutcomes, pl \in PlanOutcomes}

\* the text of rec's field f is fixed by the fields `outs` of the record: no other
\* invocation with the same values of `outs` has another text
FixedBy(s, rec, f, outs) ==
    \A o \in OtherInvocations(s) :
        (o.kind = "return" /\ o.rec.error = Null
            /\ \A g \in outs : o.rec[g] = rec[g]) => o.rec[f] = rec[f]

DemandCallsSucceeded(r) ==
    /\ \A i \in CallsOf(r, "demand_analyst") : calls[i].ok
    /\ \A t \in {"get_inventory", "get_forecasts", "invoke", "log_decision"} :
           \E i \in CallsOf(r, "demand_analyst") : calls[i].tool = t

AllScoresFailed(r) ==
    /\ \E i \in CallsOf(r, "supplier_selector") : calls[i].tool = "score_suppliers"
    /\ \A i \in CallsOf(r, "supplier_selector") :
           calls[i].tool = "score_suppliers" => ~calls[i].ok

ScoreCalls(r) ==
    Cardinality({i \in CallsOf(r, "supplier_selector") : calls[i].tool = "score_suppliers"})

AllFourSucceeded(r) ==
    /\ executed[r] = Stages
    /\ ret[r].kind = "return"
    /\ ret[r].rec.error = Null

\* the sum over items[i..] of qty * unit_price
RECURSIVE LineTotal(_, _)
LineTotal(items, i) ==
    IF i > Len(items) THEN 0
    ELSE items[i].qty * items[i].unit_price + LineTotal(items, i + 1)

\* the plan's estimated freight, 0 when the plan has none
FreightOf(plan) ==
    IF "estimated_freight_usd" \in DOMAIN plan THEN plan.estimated_freight_usd ELSE 0

ExactTotal(rec) == LineTotal(rec.order_line_items, 1) + FreightOf(rec.container_plan)

\* C14 as stated: when all four nodes succeed the record has a po_number,
\* po_total_usd equal to the sum of qty * unit_price over the order lines plus
\* the estimated freight, error = null and approval_status 'pending'.
C14_TotalIsExactSum ==
    \A r \in Runs :
        AllFourSucceeded(r) =>
            /\ Truthy(state[r].po_number)
            /\ state[r].po_total_usd = ExactTotal(state[r])
            /\ state[r].error = Null
            /\ state[r].approval_status = "pending"

\* C14 amended: when all four nodes succeed the record has a po_number,
\* po_total_usd equal to that sum rounded to two decimals, error = null and
\* approval_status 'pending', and run_pipeline returns that record.
C14_TotalIsRoundedSum ==
    \A r \in Runs :
        AllFourSucceeded(r) =>
            /\ Truthy(state[r].po_number)
            /\ state[r].po_total_usd = Round2(ExactTotal(state[r]))
            /\ state[r].error = Null
            /\ state[r].approval_status = "pending"
            /\ pc[r] \in {"end", "returned"}
            /\ pc[r] = "returned" => result[r] = [kind |-> "return", rec |-> state[r]]

\* a completed run whose exact total has a fraction of a cent
C14_Witness ==
    /\ AllFourSucceeded("r1")
    /\ pc["r1"] = "returned"
    /\ ExactTotal(state["r1"]) % 10 # 0
    /\ state["r1"].container_plan = FullPlan

\* the upstream input node s requires is absent from st or empty
InputMissing(s, st) ==
    CASE s = "supplier_selector" -> Get(st, "net_requirements", <<>>) = <<>>
      [] s = "container_optimizer" ->
            \A i \in DOMAIN Get(st, "supplier_selections", <<>>) :
                st.supplier_selections[i].supplier_id = Null
      [] s = "po_compiler" -> Get(st, "order_line_items", <<>>) = <<>>
      [] OTHER -> FALSE

\* the node that ran last in run r was handed a record without its required input
\* (no node writes the field it requires, so the record still shows it)
RanWithoutInput(r, s) ==
    /\ ret[r].kind # "none"
    /\ ret[r].stage = s
    /\ InputMissing(s, state[r])

\* C15: po_compiler handed an empty or absent order_line_items returns failure
\* at once (error set), calls neither a tool provider nor the generator, and an
\* audit entry recording zero inputs is written for the invocation.
C15_EmptyOrderAudited ==
    \A r \in Runs :
        RanWithoutInput(r, "po_compiler") =>
            /\ ret[r].kind = "return"
            /\ Truthy(ret[r].rec.error)
            /\ \A i \in CallsOf(r, "po_compiler") : calls[i].tool = "log_decision"
            /\ \E i \in DOMAIN audit_log :
                   /\ audit_log[i].agent_name = POCompiler
                   /\ audit_log[i].inputs.line_item_count = 0

\* C16: supplier_selector, container_optimizer and po_compiler, handed a record
\* whose required upstream input is missing or empty, return with error set to a
\* descriptive reason after making no call to a tool provider or the generator.
C16_PreconditionFailure ==
    \A r \in Runs : \A s \in Range(Stages) :
        RanWithoutInput(r, s) =>
            /\ ret[r].kind = "return"
            /\ ret[r].rec.error \in {"No net requirements - demand analyst must run first",
                                      "No valid supplier selections for container planning",
                                      "No order line items to compile"}
            /\ ret[r].rec.agent_activity[AgentNameOf(s)].status = "failed"
            /\ ret[r].rec.agent_activity[AgentNameOf(s)].summary = ret[r].rec.error
            /\ Truthy(state[r].error)
            /\ CallsOf(r, s) = {}
            /\ calls = <<>> /\ audit_log = <<>> /\ po_store = {}

\* container_optimizer was handed selections none of which has a supplier
C16_Witness ==
    /\ RanWithoutInput("r1", "container_optimizer")
    /\ Get(state["r1"], "supplier_selections", <<>>) = <<DirectUnmatched>>
    /\ ret["r1"].rec.error = "No valid supplier selections for container planning"
    /\ calls = <<>>

\* the activity status of the node run r executed last
LastStatus(r) == ret[r].rec.agent_activity[AgentNameOf(Last(executed[r]))].status

\* run r stopped on an empty result: its last node completed, and either
\* demand_analyst found nothing to replenish or supplier_selector matched no item
EmptyStop(r) ==
    /\ LastStatus(r) = "completed"
    /\ \/ /\ Last(executed[r]) = "demand_analyst"
          /\ state[r].net_requirements = <<>>
       \/ /\ Last(executed[r]) = "supplier_selector"
          /\ \A i \in DOMAIN state[r].supplier_selections :
                 state[r].supplier_selections[i].supplier_id = Null

\* C17: in the record run_pipeline returns for a run that stopped before
\* po_compiler succeeded, error is null exactly when the run stopped on an empty
\* result and non-null exactly when the node executed last failed.
C17_EmptyStopVersusFailure ==
    \A r \in Runs :
        (pc[r] = "returned" /\ ~AllFourSucceeded(r)) =>
            /\ result[r].kind = "return"
            /\ (result[r].rec.error = Null) <=> EmptyStop(r)
            /\ Truthy(result[r].rec.error) <=> (LastStatus(r) = "failed")
            /\ ~(EmptyStop(r) /\ LastStatus(r) = "failed")

\* a run returned after supplier_selector completed without matching any item
C17_Witness ==
    /\ pc["r1"] = "returned"
    /\ executed["r1"] = <<"demand_analyst", "supplier_selector">>
    /\ EmptyStop("r1")
    /\ result["r1"].rec.error = Null
    /\ "order_line_items" \notin DOMAIN result["r1"].rec

\* C18: whatever path a node returns by, the record it returns has every field
\* the record had before the node ran, and so has the run's record afterwards.
C18_NoFieldRemoved ==
    [][\A r \in Runs :
          (executed'[r] # executed[r] /\ ret'[r].kind = "return") =>
              /\ DOMAIN state[r] \subseteq DOMAIN ret'[r].rec
              /\ DOMAIN state[r] \subseteq DOMAIN state'[r]
      ]_vars

\* po_compiler returned by its generator-unreachable path with the upstream fields
C18_Witness ==
    /\ ret["r1"].kind = "return"
    /\ ret["r1"].stage = "po_compiler"
    /\ LLMFailed("r1", "po_compiler")
    /\ ~ToolFailed("r1", "po_compiler", {"create_draft_po"})
    /\ Truthy(ret["r1"].rec.error)
    /\ {"run_id", "net_requirements", "supplier_selections", "order_line_items",
        "container_plan"} \subseteq DOMAIN ret["r1"].rec

\* the fields that may change freely: error and the current-stage field (the
\* activity mapping is not a field of the graph's record)
CrossCutting == {"error", "current_agent"}

\* in the step at hand, field f of run r's record keeps the value it has
Kept(r, f) ==
    f \in DOMAIN state[r] => (f \in DOMAIN state'[r] /\ state'[r][f] = state[r][f])

RunIdTools == {"log_decision", "create_draft_po"}

\* C20: the run_id run_pipeline puts in the record stays the record's run_id in
\* every state of the run, no node returns a record with another run_id, and
\* every log_decision and create_draft_po call of the run, every audit entry and
\* every draft PO carries it.
C20_OneRunId ==
    [][/\ \A r \in Runs :
          /\ (pc[r] = "idle" /\ pc'[r] # "idle") => state'[r].run_id \in UUIDs
          /\ Kept(r, "run_id")
          /\ (executed'[r] # executed[r] /\ ret'[r].kind = "return") =>
                 ret'[r].rec.run_id = state[r].run_id
          /\ \A i \in DOMAIN calls' :
                 (calls'[i].run = r /\ calls'[i].tool \in RunIdTools) =>
                     calls'[i].args.run_id = state'[r].run_id
      /\ \A i \in DOMAIN audit_log' : audit_log'[i].run_id \in UsedRunIds'
      /\ \A po \in po_store' : po.run_id \in UsedRunIds'
      ]_vars

\* a run that wrote four audit entries and a draft PO under its run_id
C20_Witness ==
    /\ pc["r1"] = "returned"
    /\ Len(audit_log) = 4
    /\ \A i \in DOMAIN audit_log : audit_log[i].run_id = result["r1"].rec.run_id
    /\ \E po \in po_store : po.run_id = result["r1"].rec.run_id
    /\ Cardinality({i \in DOMAIN calls : calls[i].tool \in RunIdTools}) = 5

----------------------------------------------------------------------------
(* C21..C30 *)

\* C21: every record a node returns has current_agent equal to the node's name
\* and an activity entry for the node; error is null exactly when that entry's
\* status is 'completed' and a non-empty message exactly when it is 'failed'.
C21_OutcomeBookkeeping ==
    \A r \in Runs :
        ret[r].kind = "return" =>
            LET rec == ret[r].rec
                agent == AgentNameOf(ret[r].stage)
            IN /\ rec.current_agent = ret[r].stage
               /\ agent \in DOMAIN rec.agent_activity
               /\ rec.agent_activity[agent].status \in {"completed", "failed"}
               /\ (rec.error = Null) <=> (rec.agent_activity[agent].status = "completed")
               /\ Truthy(rec.error) <=> (rec.agent_activity[agent].status = "failed")

\* supplier_selector completed and container_optimizer then failed
C21_Witness ==
    /\ ret["r1"].kind = "return"
    /\ ret["r1"].stage = "container_optimizer"
    /\ ret["r1"].rec.current_agent = "container_optimizer"
    /\ ret["r1"].rec.agent_activity[ContainerOptimizer].status = "failed"
    /\ Truthy(ret["r1"].rec.error)
    /\ state["r1"].supplier_rationale # ""

\* the fields a node writes when it completes
StageOutputs(s) ==
    CASE s = "demand_analyst" ->
            {"inventory_snapshot", "forecast_summary", "net_requirements",
             "demand_rationale", "demand_confidence"}
      [] s = "supplier_selector" ->
            {"supplier_selections", "supplier_rationale", "supplier_confidence"}
      [] s = "container_optimizer" ->
            {"order_line_items", "container_plan", "container_rationale",
             "container_confidence"}
      [] s = "po_compiler" -> {"po_number", "po_total_usd", "po_rationale"}

\* the record rec of run r has run_id, current_agent naming the node executed
\* last, an error field, and the outputs of every node of the run that completed
FinalRecordShape(r, rec) ==
    /\ {"run_id", "current_agent", "error"} \subseteq DOMAIN rec
    /\ rec.current_agent = Last(executed[r])
    /\ \A k \in DOMAIN executed[r] :
           (k < Len(executed[r]) \/ rec.error = Null) =>
               StageOutputs(executed[r][k]) \subseteq DOMAIN rec

\* C22: every call of run_pipeline, whatever the providers do, returns a final
\* record with run_id, current_agent naming the last node executed, an error
\* field and the output fields of every node that completed.
C22_AlwaysReturnsRecord ==
    \A r \in Runs :
        RunEnded(r) =>
            /\ result[r].kind = "return"
            /\ FinalRecordShape(r, result[r].rec)

\* the texts a node puts before the failure text of the call that failed
ErrorPrefixes(s) ==
    LET a == AgentNameOf(s)
    IN {a \o " could not load inventory data: ", a \o " could not load forecast data: ",
        a \o " could not load product dimensions: ",
        a \o " could not calculate a container plan: ",
        a \o " could not create the draft PO: ",
        a \o " could not reach OpenRouter: ", a \o " OpenRouter request failed: "}

\* the failed calls of node s in run r that end the node (a score_suppliers
\* failure and a compiler request failure do not)
FatalCalls(r, s) ==
    {i \in CallsOf(r, s) :
        /\ ~calls[i].ok
        /\ calls[i].tool # "score_suppliers"
        /\ ~(s = "po_compiler" /\ calls[i].exc = "Connection error.")}

\* C23: once a node returned with error set, the run executes no further node and
\* makes no further external call, and the error of the record run_pipeline
\* returns (and of the endpoint's answer) is that node's message, which ends with
\* the failure text of the provider or generator call that failed.
C23_ErrorStopsAndSurfaces ==
    [][\A r \in Runs :
          (ret[r].kind = "return" /\ Truthy(ret[r].rec.error)) =>
              /\ state[r].error = ret[r].rec.error
              /\ \A i \in FatalCalls(r, ret[r].stage) :
                     \E p \in ErrorPrefixes(ret[r].stage) :
                         ret[r].rec.error = p \o calls[i].exc
              /\ executed'[r] = executed[r]
              /\ calls' = calls
              /\ ret'[r] = ret[r]
              /\ state'[r] = state[r]
              /\ pc'[r] \in {"end", "returned"}
              /\ pc'[r] = "returned" =>
                    /\ result'[r] = [kind |-> "return", rec |-> state[r]]
                    /\ run_pipeline_endpoint(result'[r].rec).error = ret[r].rec.error
                    /\ run_pipeline_endpoint(result'[r].rec).status = "error"
      ]_vars

\* run_pipeline returned the message of a failed calculate_container_plan call
C23_Witness ==
    /\ pc["r1"] = "returned"
    /\ Last(executed["r1"]) = "container_optimizer"
    /\ result["r1"].rec.error
         = ContainerOptimizer \o " could not calculate a container plan: "
             \o "MCP tool 'calculate_container_plan' failed: no container fits"

\* C24: whenever run_pipeline returns a record whose error is null or absent, a
\* purchase order was created: the record has a po_number and a po_total_usd.
C24_NoErrorMeansOrder ==
    \A r \in Runs :
        (pc[r] = "returned" /\ ~Truthy(Get(result[r].rec, "error", Null))) =>
            /\ {"po_number", "po_total_usd"} \subseteq DOMAIN result[r].rec
            /\ Truthy(result[r].rec.po_number)
            /\ result[r].rec.po_total_usd \in Nat
            /\ \E po \in po_store : po.po_number = result[r].rec.po_number

----------------------------------------------------------------------------
(* The MCP client's output, as the protocol describes it *)

\* an invocation has ended
McpDone == mcp.phase = "done"

\* an invocation has ended whose process exited with code 0
McpRan == McpDone /\ mcp.built /\ mcp.proc.kind = "exit" /\ mcp.proc.returncode = 0

\* the lines the process wrote
McpOutput == stdout_lines(mcp.proc.stdout)

\* l is a JSON message carrying the id of the tools/call request
CorrelatedLine(l) == l.shape = "object" /\ "id" \in DOMAIN l.msg /\ l.msg.id = 2

HasError(l) == "error" \in DOMAIN l.msg

ResultOf(l) == Get(l.msg, "result", EmptyDict)

HasErrorFlag(l) == "isError" \in DOMAIN ResultOf(l) /\ ResultOf(l).isError

ContentOf(l) == Get(ResultOf(l), "content", <<>>)

IsText(b) == b.type = "text"

TextBlocks(l) == SelectSeq(ContentOf(l), IsText)

\* the payloads the correlated lines of an output carry in a text block
DecodedPayloads(lines) ==
    {JsonLoads(TextBlocks(lines[i])[k].text).value :
        <<i, k>> \in {p \in (DOMAIN lines) \X (1..3) :
                        /\ CorrelatedLine(lines[p[1]])
                        /\ p[2] \in DOMAIN TextBlocks(lines[p[1]])
                        /\ JsonLoads(TextBlocks(lines[p[1]])[p[2]].text).ok}}

\* the three messages of the protocol, in order
ThreeMessages(stdin, tool_name, arguments) ==
    /\ Len(stdin) = 3
    /\ stdin[1].method = "initialize" /\ "id" \in DOMAIN stdin[1] /\ stdin[1].id = 1
    /\ stdin[2].method = "notifications/initialized" /\ "id" \notin DOMAIN stdin[2]
    /\ stdin[3].method = "tools/call" /\ "id" \in DOMAIN stdin[3] /\ stdin[3].id = 2
    /\ stdin[3].params.name = tool_name
    /\ stdin[3].params.arguments = arguments

\* the invocation returned a payload decoded from the output, or raised
ReturnedOrRaised ==
    IF mcp.outcome.ok
    THEN McpRan /\ mcp.outcome.data \in DecodedPayloads(McpOutput)
    ELSE mcp.outcome.exc \in STRING

----------------------------------------------------------------------------
(* C25..C30 *)

\* C25 as stated: every invocation of call_mcp_tool starts exactly one provider
\* process, sends it the initialize request (id 1), the initialized notification
\* (no id) and the tools/call request (id 2, operation name and arguments) in this
\* order, and then returns the decoded payload or raises.
C25_EveryCallStartsOneProcess ==
    McpDone =>
        /\ Len(mcp.processes) = 1
        /\ ThreeMessages(mcp.processes[1].stdin, mcp.request.tool_name,
                         mcp.request.arguments)
        /\ ReturnedOrRaised

\* C25 as amended: every invocation that finds the provider's artifact starts
\* exactly one provider process and sends it the three messages in order, then
\* returns the decoded payload or raises; an invocation that does not find the
\* artifact starts no process and raises.
C25_BuiltCallStartsOneProcess ==
    McpDone =>
        IF mcp.built
        THEN /\ Len(mcp.processes) = 1
             /\ mcp.processes[1].cwd = MCP_SERVERS(mcp.request.server_key)
             /\ ThreeMessages(mcp.processes[1].stdin, mcp.request.tool_name,
                              mcp.request.arguments)
             /\ ReturnedOrRaised
        ELSE /\ mcp.processes = <<>>
             /\ ~mcp.outcome.ok

\* an invocation started its process and returned the payload of the response
C25_Witness ==
    /\ McpRan
    /\ Len(mcp.processes) = 1
    /\ mcp.request.tool_name = "log_decision"
    /\ mcp.outcome = Ok([logged |-> TRUE])

\* l is a line no JSON message object can be read from
Malformed(l) == l.shape # "object"

\* l is a correlated response without error whose content is one text block that
\* decodes
PlainResult(l) ==
    /\ CorrelatedLine(l)
    /\ ~HasError(l)
    /\ ~HasErrorFlag(l)
    /\ Len(ContentOf(l)) = 1
    /\ IsText(ContentOf(l)[1])
    /\ JsonLoads(ContentOf(l)[1].text).ok

\* the first line of the output that is correlated with the tools/call request
FirstCorrelated(lines) ==
    CHOOSE i \in DOMAIN lines :
        CorrelatedLine(lines[i]) /\ \A j \in 1..(i - 1) : ~CorrelatedLine(lines[j])

SomeCorrelated(lines) == \E i \in DOMAIN lines : CorrelatedLine(lines[i])

\* C26: the result comes only from a line that is a JSON message with id 2: a
\* returned payload is the payload of such a line, and when the output holds such
\* a response and every other line is malformed or carries another id, those
\* other lines are skipped and the payload is returned.
C26_OnlyCorrelatedLineDecides ==
    McpRan =>
        /\ mcp.outcome.ok => mcp.outcome.data \in DecodedPayloads(McpOutput)
        /\ ( /\ \E i \in DOMAIN McpOutput : PlainResult(McpOutput[i])
             /\ \A i \in DOMAIN McpOutput :
                    \/ PlainResult(McpOutput[i])
                    \/ Malformed(McpOutput[i])
                    \/ ~CorrelatedLine(McpOutput[i]) )
           => mcp.outcome.ok

\* C27: when the correlated message has an error field or a result whose error
\* flag is set, the invocation raises, the failure is not the generic 'no valid
\* response' one, and for the error flag the failure message carries the text of
\* the envelope.
C27_ErrorsRaiseWithText ==
    (McpRan /\ SomeCorrelated(McpOutput)) =>
        LET l == McpOutput[FirstCorrelated(McpOutput)]
            tool == mcp.request.tool_name
        IN /\ (HasError(l) \/ HasErrorFlag(l)) =>
                 /\ ~mcp.outcome.ok
                 /\ mcp.outcome.exc
                      # NoValidResponse(mcp.request.server_key, tool)
           /\ (~HasError(l) /\ HasErrorFlag(l) /\ TextBlocks(l) # <<>>) =>
                 /\ ~mcp.outcome.ok
                 /\ mcp.outcome.exc
                      = "MCP tool '" \o tool \o "' failed: " \o TextBlocks(l)[1].text

\* C28: when the correlated message has no error field and no error flag, the
\* invocation returns the decoding of the first text block of the content list,
\* wherever the block sits in the list.
C28_FirstTextBlockDecoded ==
    (McpRan /\ SomeCorrelated(McpOutput)) =>
        LET l == McpOutput[FirstCorrelated(McpOutput)]
        IN ( /\ ~HasError(l)
             /\ ~HasErrorFlag(l)
             /\ TextBlocks(l) # <<>>
             /\ JsonLoads(TextBlocks(l)[1].text).ok )
           => mcp.outcome = Ok(JsonLoads(TextBlocks(l)[1].text).value)

\* call i of the trace failed because the provider's artifact is missing
ArtifactMissing(i) ==
    /\ calls[i].server # "openrouter"
    /\ calls[i].exc = NotBuilt(calls[i].server)

\* C29: when a provider's artifact is missing, call_mcp_tool fails without
\* starting a process, and the node that made the call aborts: it makes no later
\* call to that provider in the same invocation and ends failed.
C29_MissingArtifactAbortsStage ==
    /\ (McpDone /\ ~mcp.built) => (mcp.processes = <<>> /\ ~mcp.outcome.ok)
    /\ \A i \in DOMAIN calls :
          ArtifactMissing(i) =>
              /\ \A j \in DOMAIN calls :
                     (j > i /\ calls[j].run = calls[i].run /\ calls[j].stage = calls[i].stage)
                         => calls[j].server # calls[i].server
              /\ StageFailedAndStopped(calls[i].run, calls[i].stage)

\* an invocation has ended that started its process
McpStarted == McpDone /\ mcp.built

\* C30: the invocation raises whenever the process exits with a non-zero code
\* (whatever it wrote), whenever it runs past the time limit, and whenever no line
\* of its output yields a decodable correlated result; in each of these cases
\* exactly one process was started.
C30_TransportFailuresRaise ==
    McpStarted =>
        /\ ( \/ mcp.proc.kind = "timeout"
             \/ mcp.proc.kind = "exit" /\ mcp.proc.returncode # 0
             \/ mcp.proc.kind = "exit" /\ DecodedPayloads(McpOutput) = {} )
           => (~mcp.outcome.ok /\ Len(mcp.processes) = 1)

\* the process wrote the well-formed response and exited with code 1: the
\* invocation raised
C30_Witness ==
    /\ McpStarted
    /\ mcp.proc.kind = "exit"
    /\ mcp.proc.returncode = 1
    /\ \E i \in DOMAIN McpOutput : PlainResult(McpOutput[i])
    /\ mcp.outcome = Fail("MCP server '" \o mcp.request.server_key \o "' exited 1: boom")
    /\ Len(mcp.processes) = 1

----------------------------------------------------------------------------
(* C31..C39 *)

\* the other of the two runs
Other(r) == CHOOSE q \in Runs : q # r

\* the drafts the order store keeps for run r
DraftsOf(r) == {po \in po_store : "run_id" \in DOMAIN state[r] /\ po.run_id = state[r].run_id}

LogCalls(r, s) == {i \in CallsOf(r, s) : calls[i].tool = "log_decision"}

\* the audit entries of run r, in the order they were written
EntriesOf(r) ==
    IF "run_id" \in DOMAIN state[r]
    THEN SelectSeq(audit_log, LAMBDA e : e.run_id = state[r].run_id)
    ELSE <<>>

PreconditionMessages ==
    {"No net requirements - demand analyst must run first",
     "No valid supplier selections for container planning",
     "No order line items to compile"}

\* C32: a node begins only after the log_decision call of the node before it has
\* succeeded (so the audit entries of a run stand in stage order); within a node
\* a failed precondition check comes before any external call, every tool and
\* generator call comes before the audit write, and the audit entry is written
\* when the node has returned.
C32_AuditInStageOrder ==
    \A r \in Runs :
        /\ \A k \in DOMAIN executed[r] :
              LET s == executed[r][k]
              IN /\ Cardinality(LogCalls(r, s)) <= 1
                 /\ \A i \in LogCalls(r, s) : \A j \in CallsOf(r, s) : j <= i
                 /\ \A i \in LogCalls(r, s) :
                        calls[i].ok =>
                            /\ Len(EntriesOf(r)) >= k
                            /\ EntriesOf(r)[k].agent_name = AgentNameOf(s)
                 /\ k > 1 =>
                        \E i \in LogCalls(r, executed[r][k - 1]) :
                            /\ calls[i].ok
                            /\ \A j \in CallsOf(r, s) : i < j
        /\ \A k \in DOMAIN EntriesOf(r) :
              /\ k <= Len(executed[r])
              /\ EntriesOf(r)[k].agent_name = AgentNameOf(Stages[k])
              /\ executed[r][k] = Stages[k]
        /\ (ret[r].kind = "return" /\ Get(ret[r].rec, "error", Null) \in PreconditionMessages)
              => CallsOf(r, ret[r].stage) = {}

\* all four nodes ran and wrote their audit entries
C32_Witness ==
    /\ executed["r1"] = Stages
    /\ Len(EntriesOf("r1")) = 4
    /\ \A s \in Range(Stages) : \E i \in LogCalls("r1", s) : calls[i].ok

Routers == {"route_after_demand", "route_after_supplier", "route_after_container"}

\* the decision of the router named p on record st
RouteOf(p, st) ==
    CASE p = "route_after_demand" -> route_after_demand(st)
      [] p = "route_after_supplier" -> route_after_supplier(st)
      [] p = "route_after_container" -> route_after_container(st)

\* the output list of the stage before router p
RelevantList(p, st) ==
    CASE p = "route_after_demand" -> Get(st, "net_requirements", <<>>)
      [] p = "route_after_supplier" -> Get(st, "supplier_selections", <<>>)
      [] p = "route_after_container" -> Get(st, "order_line_items", <<>>)

\* the elements of the list that the router counts: for the supplier stage the
\* selections that name a supplier
Usable(p, st) ==
    IF p = "route_after_supplier"
    THEN SelectSeq(RelevantList(p, st), HasSupplier)
    ELSE RelevantList(p, st)

\* records that differ from st in the error and in the output lists
RouteProbes(st) ==
    {Merge(st, [error |-> e, net_requirements |-> n, supplier_selections |-> sel])
        : e \in {Null, "upstream failure"},
          n \in {<<>>, <<DirectRequirement>>},
          sel \in {<<>>, <<DirectUnmatched>>, <<DirectMatched>>,
                   <<DirectUnmatched, DirectMatched>>}}
        \cup {st}

\* C33 as stated: the decision of a router is a function of whether error is set,
\* whether the stage's output list is empty, and the stage: records that agree on
\* the three get the same decision; and the routing step changes no state.
C33_RoutingByEmptiness ==
    [][\A r \in Runs :
          (pc[r] \in Routers /\ pc'[r] # pc[r]) =>
              /\ pc'[r] = RouteOf(pc[r], state[r])
              /\ \A a, b \in RouteProbes(state[r]) :
                     ( /\ Truthy(Get(a, "error", Null)) = Truthy(Get(b, "error", Null))
                       /\ (RelevantList(pc[r], a) = <<>>) = (RelevantList(pc[r], b) = <<>>) )
                         => RouteOf(pc[r], a) = RouteOf(pc[r], b)
              /\ UNCHANGED <<state, ret, executed, result, calls, audit_log, po_store>>
      ]_vars

\* C33 as amended: the decision is a function of whether error is set, whether
\* the stage's output list has no element the router counts (after the supplier
\* stage: no selection that names a supplier), and the stage; the routing step
\* changes no state.
C33_RoutingByUsable ==
    [][\A r \in Runs :
          (pc[r] \in Routers /\ pc'[r] # pc[r]) =>
              /\ pc'[r] = RouteOf(pc[r], state[r])
              /\ \A a, b \in RouteProbes(state[r]) :
                     ( /\ Truthy(Get(a, "error", Null)) = Truthy(Get(b, "error", Null))
                       /\ (Usable(pc[r], a) = <<>>) = (Usable(pc[r], b) = <<>>) )
                         => RouteOf(pc[r], a) = RouteOf(pc[r], b)
              /\ UNCHANGED <<state, ret, executed, result, calls, audit_log, po_store>>
      ]_vars

\* the router ended a run whose selections, none naming a supplier, were not empty
C33_Witness ==
    /\ pc["r1"] = "end"
    /\ Last(executed["r1"]) = "supplier_selector"
    /\ ~Truthy(Get(state["r1"], "error", Null))
    /\ state["r1"].supplier_selections # <<>>

\* C34: every run terminates: a run that was started eventually reaches the end
\* state and run_pipeline returns; it executes at most four nodes; and it does
\* not end inside a node (a run that has ended left its last node by a return).
C34_RunReachesEnd ==
    /\ [](\A r \in Runs : Len(executed[r]) <= 4)
    /\ [](\A r \in Runs : RunEnded(r) => (ret[r].kind = "return" /\ pc[r] = "returned"))
    /\ (pc["r1"] = "demand_analyst") ~> (pc["r1"] = "returned")

\* C35: the record run_pipeline returns carries an activity mapping with exactly
\* one entry for each node the run executed, and a node leaves the entries of the
\* nodes before it as they were.
C35_ActivityPerExecutedStage ==
    \A r \in Runs :
        (pc[r] = "returned") =>
            /\ "agent_activity" \in DOMAIN result[r].rec
            /\ DOMAIN result[r].rec.agent_activity
                  = {AgentNameOf(s) : s \in Range(executed[r])}

\* C36: in a run through the graph no node is entered without its input:
\* supplier_selector only with net_requirements and no error, container_optimizer
\* only with a selection that names a supplier, po_compiler only with
\* order_line_items and no error; so no node ends with a precondition failure.
C36_PreconditionsHoldInGraph ==
    \A r \in Runs :
        /\ pc[r] = "supplier_selector" =>
              /\ Get(state[r], "net_requirements", <<>>) # <<>>
              /\ Get(state[r], "error", Null) = Null
        /\ pc[r] = "container_optimizer" =>
              /\ \E i \in DOMAIN Get(state[r], "supplier_selections", <<>>) :
                     HasSupplier(state[r].supplier_selections[i])
              /\ Get(state[r], "error", Null) = Null
        /\ pc[r] = "po_compiler" =>
              /\ Get(state[r], "order_line_items", <<>>) # <<>>
              /\ Get(state[r], "error", Null) = Null
        /\ ret[r].kind = "return" =>
              Get(ret[r].rec, "error", Null) \notin PreconditionMessages
        /\ \A s \in Range(executed[r]) \ {"demand_analyst"} : CallsOf(r, s) # {}

\* po_compiler ran on the order lines the graph handed it
C36_Witness ==
    /\ executed["r1"] = Stages
    /\ state["r1"].order_line_items # <<>>
    /\ ret["r1"].kind = "return"
    /\ ret["r1"].stage = "po_compiler"

\* the create_draft_po calls of run r
CreateCalls(r) == {i \in CallsOf(r, "po_compiler") : calls[i].tool = "create_draft_po"}

\* C37: the order store and the returned record agree: when a run has ended,
\* every draft the store keeps for it is the po_number of the record run_pipeline
\* returned; and a returned record has a po_number only if create_draft_po and
\* po_compiler's log_decision both succeeded.
C37_DraftMatchesRecord ==
    \A r \in Runs :
        RunEnded(r) =>
            /\ \A po \in DraftsOf(r) :
                   /\ result[r].kind = "return"
                   /\ Get(result[r].rec, "po_number", Null) = po.po_number
            /\ (result[r].kind = "return" /\ Truthy(Get(result[r].rec, "po_number", Null))) =>
                   /\ \E i \in CreateCalls(r) : calls[i].ok
                   /\ \E i \in LogCalls(r, "po_compiler") : calls[i].ok
                   /\ \E po \in DraftsOf(r) : po.po_number = result[r].rec.po_number

\* the generator call of po_compiler in run r failed with exception text exc
NotesFailed(r, exc) ==
    \E i \in CallsOf(r, "po_compiler") :
        calls[i].server = "openrouter" /\ ~calls[i].ok /\ calls[i].exc = exc

\* C38: in po_compiler a RuntimeError of the generator ends the node failed before
\* create_draft_po is called: no draft is created and the record gets no
\* po_number; any other failure of the generator is not fatal: create_draft_po is
\* still called, with the fallback note, and the failure is kept as llm_error.
C38_CompilerGeneratorFailure ==
    \A r \in Runs :
        /\ NotesFailed(r, "OPENROUTER_API_KEY is not configured.") =>
              /\ CreateCalls(r) = {}
              /\ LogCalls(r, "po_compiler") = {}
              /\ DraftsOf(r) = {}
              /\ StageFailedAndStopped(r, "po_compiler")
              /\ ~Truthy(Get(state[r], "po_number", Null))
              /\ ret[r].rec.error = POCompiler \o " could not reach OpenRouter: "
                                       \o "OPENROUTER_API_KEY is not configured."
        /\ NotesFailed(r, "Connection error.") =>
              /\ Cardinality(CreateCalls(r)) = 1
              /\ \A i \in CreateCalls(r) :
                     /\ Truthy(calls[i].args.notes)
                     /\ calls[i].args.notes # "Executive summary."
              /\ ret[r].kind = "return" =>
                     /\ ret[r].rec.agent_activity[POCompiler].llm_used = FALSE
                     /\ ret[r].rec.agent_activity[POCompiler].llm_error
                           = "OpenRouter request failed: Connection error."
                     /\ ~Truthy(ret[r].rec.error) => Truthy(state[r].po_number)

\* the generator's request failed and the order was still created
C38_Witness ==
    /\ NotesFailed("r1", "Connection error.")
    /\ pc["r1"] = "returned"
    /\ Truthy(Get(result["r1"].rec, "po_number", Null))
    /\ DraftsOf("r1") # {}

\* C39: approval_status is 'pending' in the initial record, in every record a
\* node returns, in the run's record after every node and router step, and in
\* the record run_pipeline returns.
C39_ApprovalStaysPending ==
    \A r \in Runs :
        /\ pc[r] # "idle" => Get(state[r], "approval_status", Null) = "pending"
        /\ ret[r].kind = "return" => Get(ret[r].rec, "approval_status", Null) = "pending"
        /\ result[r].kind = "return" =>
              /\ Get(result[r].rec, "approval_status", Null) = "pending"
              /\ run_pipeline_endpoint(result[r].rec).approval_status = "pending"

\* run_pipeline returned a record with a purchase order awaiting review
C39_Witness ==
    /\ pc["r1"] = "returned"
    /\ Truthy(Get(result["r1"].rec, "po_number", Null))
    /\ result["r1"].rec.approval_status = "pending"

====
